---- MODULE Spec2Model ----
(***************************************************************************)
(* Alonso: lexer, Pratt parser and tree-walking evaluator.                 *)
(*                                                                         *)
(* Source text is a sequence of one-character strings.  Strings of the     *)
(* language (token lexemes, identifier names, String values) are such      *)
(* sequences too.  Go byte positions are 0-based: byte i of the input is   *)
(* input[i + 1].                                                           *)
(***************************************************************************)
EXTENDS Integers, Sequences, FiniteSets, TLC

VARIABLES
    input,      \* Lexer.input of the token loop of main
    lexer,      \* Lexer{position, line, column} of that loop
    token,      \* the token returned by the last NextToken call
    calls,      \* number of NextToken calls made by the token loop
    interp,     \* the Interpreter: heap of environments, output, history
    pc,         \* where the interpreter is: "idle" between Execute calls,
                \* "eval" in the loop of evalProgram, "evaluated" after it,
                \* "hung" in a ParseProgram that never returns, "crashed"
                \* after a panic, "running" past the step budget
    source,     \* input of the current (or last) Execute call
    program,    \* program.Statements of that call
    diagnostics,\* parser.Errors() of that call
    cursor,     \* the statement the loop of evalProgram is at
    outcome,    \* the variable result of evalProgram
    execErr,    \* what the last Execute returned: "nil", "parsing failed",
                \* "runtime error"; "none" before it returns
    nexec,      \* number of Execute calls so far
    pre,        \* history: interp when the current Execute was called
    trace       \* history: the top-level statements evaluated by the
                \* current Execute, with the result of each and the root
                \* store after it

lexVars == <<input, lexer, token, calls>>

execVars == <<interp, pc, source, program, diagnostics, cursor, outcome, execErr,
              nexec, pre, trace>>

vars == <<input, lexer, token, calls, interp, pc, source, program,
          diagnostics, cursor, outcome, execErr, nexec, pre, trace>>

(***************************************************************************)
(* Bounds                                                                  *)
(***************************************************************************)
MaxLen == 3            \* longest source text of the token loop
MaxCalls == 5          \* NextToken calls of the token loop that are followed
MaxSteps == 12         \* loop rounds and function calls of one statement
MaxExecs == 2          \* Execute calls on one interpreter

(***************************************************************************)
(* Characters                                                              *)
(***************************************************************************)
Letters == {"a", "b", "c", "d", "e", "f", "g", "h", "i", "j", "k", "l", "m",
            "n", "o", "p", "q", "r", "s", "t", "u", "v", "w", "x", "y", "z"}

Digits == {"0", "1", "2", "3", "4", "5", "6", "7", "8", "9"}

IsLetter(ch) == ch \in Letters

IsDigit(ch) == ch \in Digits

\* the byte 0 that peek returns past the end of the input
NUL == "NUL"

\* Where a handler names the value of a call and uses it more than once, the
\* model writes (CHOOSE v \in {e(x) : x \in {call}} : TRUE), which is e(call)
\* with the call evaluated once.

(***************************************************************************)
(* Lexer                                                                   *)
(***************************************************************************)
Token(type, value, line, column) ==
    [Type |-> type, Value |-> value, Line |-> line, Column |-> column]

NewLexer == [position |-> 0, line |-> 1, column |-> 1]

advance(l) == [l EXCEPT !.position = @ + 1, !.column = @ + 1]

peek(in, l) == IF l.position + 1 >= Len(in) THEN NUL ELSE in[l.position + 2]

RECURSIVE skipWhitespace(_, _)
skipWhitespace(in, l) ==
    IF l.position < Len(in) /\ in[l.position + 1] \in {" ", "\t", "\r"}
    THEN skipWhitespace(in, advance(l))
    ELSE l

RECURSIVE skipComment(_, _)
skipComment(in, l) ==
    IF l.position < Len(in) /\ in[l.position + 1] # "\n"
    THEN skipComment(in, advance(l))
    ELSE l

singleCharToken(in, l, tokenType) ==
    [tok |-> Token(tokenType, <<in[l.position + 1]>>, l.line, l.column),
     l   |-> advance(l)]

\* the two-character operators: both bytes are consumed, then the column of
\* the token is computed from the advanced column
twoCharToken(l, tokenType, value) ==
    LET l2 == advance(advance(l))
    IN [tok |-> Token(tokenType, value, l2.line, l2.column - 2), l |-> l2]

illegalToken(in, l) ==
    [tok |-> Token("ILLEGAL", <<in[l.position + 1]>>, l.line, l.column),
     l   |-> l]

UnterminatedString ==
    <<"u", "n", "t", "e", "r", "m", "i", "n", "a", "t", "e", "d", " ",
      "s", "t", "r", "i", "n", "g">>

RECURSIVE scanString(_, _)
scanString(in, l) ==
    IF l.position < Len(in) /\ in[l.position + 1] # "\""
    THEN scanString(in, advance(l))
    ELSE l

readString(in, l) ==
    LET start    == l.position
        startCol == l.column
        l2       == scanString(in, advance(l))
    IN IF l2.position >= Len(in)
       THEN [tok |-> Token("ILLEGAL", UnterminatedString, l2.line, startCol),
             l   |-> l2]
       ELSE [tok |-> Token("STRING", SubSeq(in, start + 2, l2.position),
                           l2.line, startCol),
             l   |-> advance(l2)]

RECURSIVE scanNumber(_, _)
scanNumber(in, l) ==
    IF l.position < Len(in)
       /\ (IsDigit(in[l.position + 1]) \/ in[l.position + 1] = ".")
    THEN scanNumber(in, advance(l))
    ELSE l

readNumber(in, l) ==
    LET l2 == scanNumber(in, l)
    IN [tok |-> Token("NUMBER", SubSeq(in, l.position + 1, l2.position),
                      l2.line, l.column),
        l   |-> l2]

RECURSIVE scanIdentifier(_, _)
scanIdentifier(in, l) ==
    IF l.position < Len(in)
       /\ (IsLetter(in[l.position + 1]) \/ IsDigit(in[l.position + 1])
           \/ in[l.position + 1] = "_")
    THEN scanIdentifier(in, advance(l))
    ELSE l

KwGrid == <<"g", "r", "i", "d">>
KwPace == <<"p", "a", "c", "e">>
KwCircuit == <<"c", "i", "r", "c", "u", "i", "t">>
KwElseCircuit == <<"e", "l", "s", "e", "_", "c", "i", "r", "c", "u", "i", "t">>
KwLoop == <<"l", "o", "o", "p">>
KwWhileRacing == <<"w", "h", "i", "l", "e", "_", "r", "a", "c", "i", "n", "g">>
KwReturnPit == <<"r", "e", "t", "u", "r", "n", "_", "p", "i", "t">>
KwBreakFlag == <<"b", "r", "e", "a", "k", "_", "f", "l", "a", "g">>
KwContinueRace ==
    <<"c", "o", "n", "t", "i", "n", "u", "e", "_", "r", "a", "c", "e">>
KwFormation == <<"f", "o", "r", "m", "a", "t", "i", "o", "n">>
KwGarage == <<"g", "a", "r", "a", "g", "e">>
KwTrue == <<"t", "r", "u", "e">>
KwFalse == <<"f", "a", "l", "s", "e">>

getKeywordType(identifier) ==
    CASE identifier = KwGrid         -> "GRID"
      [] identifier = KwPace         -> "PACE"
      [] identifier = KwCircuit      -> "CIRCUIT"
      [] identifier = KwElseCircuit  -> "ELSE_CIRCUIT"
      [] identifier = KwLoop         -> "LOOP"
      [] identifier = KwWhileRacing  -> "WHILE_RACING"
      [] identifier = KwReturnPit    -> "RETURN_PIT"
      [] identifier = KwBreakFlag    -> "BREAK_FLAG"
      [] identifier = KwContinueRace -> "CONTINUE_RACE"
      [] identifier = KwFormation    -> "FORMATION"
      [] identifier = KwGarage       -> "GARAGE"
      [] identifier = KwTrue         -> "BOOLEAN"
      [] identifier = KwFalse        -> "BOOLEAN"
      [] OTHER                       -> "IDENTIFIER"

readIdentifier(in, l) ==
    LET l2    == scanIdentifier(in, l)
        value == SubSeq(in, l.position + 1, l2.position)
    IN [tok |-> Token(getKeywordType(value), value, l2.line, l.column),
        l   |-> l2]

\* the operators that are always one character long
SingleCharType(ch) ==
    CASE ch = "+" -> "PLUS"
      [] ch = "-" -> "MINUS"
      [] ch = "*" -> "MULTIPLY"
      [] ch = "/" -> "DIVIDE"
      [] ch = "%" -> "MODULO"
      [] ch = ";" -> "SEMICOLON"
      [] ch = "," -> "COMMA"
      [] ch = "." -> "DOT"
      [] ch = "(" -> "LPAREN"
      [] ch = ")" -> "RPAREN"
      [] ch = "{" -> "LBRACE"
      [] ch = "}" -> "RBRACE"
      [] ch = "[" -> "LBRACKET"
      [] ch = "]" -> "RBRACKET"

SingleChars ==
    {"+", "-", "*", "/", "%", ";", ",", ".", "(", ")", "{", "}", "[", "]"}

RECURSIVE NextToken(_, _)
NextToken(in, l0) ==
    (CHOOSE v \in {
       IF l.position >= Len(in)
       THEN [tok |-> Token("EOF", <<>>, l.line, l.column), l |-> l]
       ELSE IF in[l.position + 1] = "/" /\ peek(in, l) = "/"
       THEN NextToken(in, skipComment(in, l))
       ELSE LET ch == in[l.position + 1]
            IN CASE ch = "\n" ->
                   [tok |-> Token("NEWLINE", <<ch>>, l.line, l.column),
                    l   |-> [advance(l) EXCEPT !.line = @ + 1, !.column = 1]]
              [] ch = "=" ->
                   IF peek(in, l) = "="
                   THEN twoCharToken(l, "EQUAL", <<"=", "=">>)
                   ELSE singleCharToken(in, l, "ASSIGN")
              [] ch = "!" ->
                   IF peek(in, l) = "="
                   THEN twoCharToken(l, "NOT_EQUAL", <<"!", "=">>)
                   ELSE singleCharToken(in, l, "NOT")
              [] ch = "<" ->
                   IF peek(in, l) = "="
                   THEN twoCharToken(l, "LESS_EQUAL", <<"<", "=">>)
                   ELSE singleCharToken(in, l, "LESS")
              [] ch = ">" ->
                   IF peek(in, l) = "="
                   THEN twoCharToken(l, "GREATER_EQUAL", <<">", "=">>)
                   ELSE singleCharToken(in, l, "GREATER")
              [] ch = "&" ->
                   IF peek(in, l) = "&"
                   THEN twoCharToken(l, "AND", <<"&", "&">>)
                   ELSE illegalToken(in, l)
              [] ch = "|" ->
                   IF peek(in, l) = "|"
                   THEN twoCharToken(l, "OR", <<"|", "|">>)
                   ELSE illegalToken(in, l)
              [] ch \in SingleChars ->
                   singleCharToken(in, l, SingleCharType(ch))
              [] ch = "\"" -> readString(in, l)
              [] OTHER ->
                   IF IsDigit(ch) THEN readNumber(in, l)
                   ELSE IF IsLetter(ch) \/ ch = "_" THEN readIdentifier(in, l)
                   ELSE illegalToken(in, l)
       : l \in {skipWhitespace(in, l0)} } : TRUE)

\* The tokens that at most n successive NextToken calls return from lexer
\* state l, the state after them, and whether the last of them left the
\* lexer where it was (done): from then on every call returns that same token
\* (EOF at the end of the input, or an ILLEGAL token that was not consumed).
\* The calls are made from left to right, the first half before the second.
RECURSIVE Tokens(_, _, _)
Tokens(in, l, n) ==
    IF n = 1
    THEN (CHOOSE v \in { [toks |-> <<r.tok>>, l |-> r.l, done |-> r.l = l]
                         : r \in {NextToken(in, l)} } : TRUE)
    ELSE
    (CHOOSE v \in { IF first.done THEN first ELSE
    (CHOOSE v \in { [toks |-> first.toks \o rest.toks, l |-> rest.l,
                     done |-> rest.done]
        : rest  \in {Tokens(in, first.l, n - n \div 2)} } : TRUE)
        : first \in {Tokens(in, l, n \div 2)} } : TRUE)

(***************************************************************************)
(* AST.  A node is a record with a field kind.  A Go nil is a node of kind *)
(* "nil"; type is the pointer type a nil pointer was returned as (a nil    *)
(* *GridStatement stored in a Statement interface is not == nil), and ""   *)
(* for the nil interface.                                                  *)
(***************************************************************************)
NilNode(t) == [kind |-> "nil", type |-> t]

NIL == NilNode("")

\* stmt != nil, exp != nil on an interface value
NotNil(node) == node # NIL

\* ptr != nil on a pointer
IsNilPtr(node) == node.kind = "nil"

(***************************************************************************)
(* Numbers: a float64 is modelled by the exact rational n/d in lowest      *)
(* terms, d > 0                                                            *)
(***************************************************************************)
RECURSIVE Gcd(_, _)
Gcd(a, b) == IF b = 0 THEN a ELSE Gcd(b, a % b)

Abs(a) == IF a < 0 THEN -a ELSE a

Rat(n, d) ==
    LET g == Gcd(Abs(n), Abs(d))
        s == IF d < 0 THEN -1 ELSE 1
    IN [n |-> (s * n) \div g, d |-> (s * d) \div g]

DigitValue(ch) ==
    CASE ch = "0" -> 0 [] ch = "1" -> 1 [] ch = "2" -> 2 [] ch = "3" -> 3
      [] ch = "4" -> 4 [] ch = "5" -> 5 [] ch = "6" -> 6 [] ch = "7" -> 7
      [] ch = "8" -> 8 [] ch = "9" -> 9

CountDots(text) == Cardinality({k \in 1..Len(text) : text[k] = "."})

\* the digits of text read as one decimal numeral, dots skipped
RECURSIVE DigitsValue(_)
DigitsValue(text) ==
    IF text = <<>> THEN 0
    ELSE LET last == text[Len(text)]
             rest == DigitsValue(SubSeq(text, 1, Len(text) - 1))
         IN IF last = "." THEN rest ELSE rest * 10 + DigitValue(last)

RECURSIVE Pow10(_)
Pow10(k) == IF k = 0 THEN 1 ELSE 10 * Pow10(k - 1)

\* strconv.ParseFloat on a lexeme of readNumber (digits and dots, first a
\* digit): an error when there is more than one dot
ParseFloat(text) ==
    IF CountDots(text) > 1
    THEN [ok |-> FALSE, value |-> Rat(0, 1)]
    ELSE LET dot  == IF CountDots(text) = 0 THEN Len(text)
                     ELSE CHOOSE k \in 1..Len(text) : text[k] = "."
             frac == IF CountDots(text) = 0 THEN 0 ELSE Len(text) - dot
         IN [ok |-> TRUE, value |-> Rat(DigitsValue(text), Pow10(frac))]

(***************************************************************************)
(* Parser                                                                  *)
(***************************************************************************)
LOWEST == 1
LOGICAL == 2
EQUALS == 3
LESSGREATER == 4
SUM == 5
PRODUCT == 6
PREFIX == 7
CALL == 8
INDEX == 9

precedences(t) ==
    CASE t \in {"AND", "OR"} -> LOGICAL
      [] t \in {"EQUAL", "NOT_EQUAL"} -> EQUALS
      [] t \in {"LESS", "GREATER", "LESS_EQUAL", "GREATER_EQUAL"} -> LESSGREATER
      [] t \in {"PLUS", "MINUS"} -> SUM
      [] t \in {"DIVIDE", "MULTIPLY", "MODULO"} -> PRODUCT
      [] t = "ASSIGN" -> EQUALS
      [] t = "LPAREN" -> CALL
      [] t = "LBRACKET" -> INDEX
      [] OTHER -> LOWEST

\* the zero value of Token: TokenType 0 is NUMBER
ZeroToken == Token("NUMBER", <<>>, 0, 0)

\* a parse result: the parser afterwards and the node returned
R(p, node) == [p |-> p, node |-> node]

\* p.l.NextToken(): the lexer of a parser is held as the tokens its calls
\* return (a call that moves the lexer consumes a byte, so one of the first
\* Len(in) + 1 calls does not) and the number of the next one; the last
\* token repeats
nextToken(p) ==
    [p EXCEPT !.currentToken = p.peekToken,
              !.peekToken = p.lexer.tokens[p.lexer.next],
              !.lexer.next = IF @ < Len(p.lexer.tokens) THEN @ + 1 ELSE @]

NewParser(in) ==
    nextToken(nextToken(
        [lexer |-> [tokens |-> Tokens(in, NewLexer, Len(in) + 1).toks, next |-> 1],
         currentToken |-> ZeroToken, peekToken |-> ZeroToken,
         errors |-> <<>>]))

ParseError(text, args) == [text |-> text, args |-> args]

peekError(p, t) ==
    [p EXCEPT !.errors = Append(@,
        ParseError("expected next token to be %s, got %s instead",
                   <<t, p.peekToken.Type>>))]

noPrefixParseFnError(p, t) ==
    [p EXCEPT !.errors = Append(@,
        ParseError("no prefix parse function for %s found", <<t>>))]

expectPeek(p, t) ==
    IF p.peekToken.Type = t
    THEN [p |-> nextToken(p), ok |-> TRUE]
    ELSE [p |-> peekError(p, t), ok |-> FALSE]

curPrecedence(p) == precedences(p.currentToken.Type)

peekPrecedence(p) == precedences(p.peekToken.Type)

skipSemicolon(p) ==
    IF p.peekToken.Type = "SEMICOLON" THEN nextToken(p) ELSE p

\* The window holds an ILLEGAL token that NextToken returns again and again
\* without moving: from here every loop that waits for EOF or "}" runs
\* forever (each round appends a diagnostic and leaves the window as it is).
Stuck(p) ==
    /\ p.currentToken.Type = "ILLEGAL"
    /\ p.peekToken = p.currentToken
    /\ p.lexer.next = Len(p.lexer.tokens)
    /\ p.lexer.tokens[p.lexer.next] = p.currentToken

RECURSIVE parseExpression(_, _)
RECURSIVE parseStatement(_)
RECURSIVE parseBlockStatement(_)

parseIdentifier(p) ==
    R(p, [kind |-> "Identifier", Value |-> p.currentToken.Value])

parseNumberLiteral(p) ==
    LET f == ParseFloat(p.currentToken.Value)
    IN IF ~f.ok
       THEN R([p EXCEPT !.errors = Append(@,
                  ParseError("could not parse %q as number",
                             <<p.currentToken.Value>>))],
              NIL)
       ELSE R(p, [kind |-> "NumberLiteral", Value |-> f.value])

parseStringLiteral(p) ==
    R(p, [kind |-> "StringLiteral", Value |-> p.currentToken.Value])

parseBooleanLiteral(p) ==
    R(p, [kind |-> "BooleanLiteral", Value |-> (p.currentToken.Value = KwTrue)])

\* for p.peekToken.Type == COMMA { nextToken; nextToken; append(parseExpression) }
RECURSIVE parseExpressionListRest(_, _)
parseExpressionListRest(p, args) ==
    IF p.peekToken.Type = "COMMA"
    THEN (CHOOSE v \in { parseExpressionListRest(r.p, Append(args, r.node))
               : r \in {parseExpression(nextToken(nextToken(p)), LOWEST)} } : TRUE)
    ELSE [p |-> p, list |-> args]

\* returns the list, and isNil when the Go slice returned is nil
parseExpressionList(p, end) ==
    IF p.peekToken.Type = end
    THEN [p |-> nextToken(p), list |-> <<>>, isNil |-> FALSE]
    ELSE
    (CHOOSE v \in {
    (CHOOSE v \in {
    (CHOOSE v \in { IF ~e.ok
          THEN [p |-> e.p, list |-> <<>>, isNil |-> TRUE]
          ELSE [p |-> e.p, list |-> rest.list, isNil |-> FALSE]
        : e     \in {expectPeek(rest.p, end)} } : TRUE)
        : rest  \in {parseExpressionListRest(first.p, <<first.node>>)} } : TRUE)
        : first \in {parseExpression(nextToken(p), LOWEST)} } : TRUE)

parseFormationLiteral(p) ==
    (CHOOSE v \in { R(r.p, [kind |-> "FormationLiteral", Elements |-> r.list])
          : r \in {parseExpressionList(p, "RBRACKET")} } : TRUE)

parsePrefixExpression(p) ==
    (CHOOSE v \in { R(r.p, [kind |-> "PrefixExpression",
                  Operator |-> p.currentToken.Value, Right |-> r.node])
          : r \in {parseExpression(nextToken(p), PREFIX)} } : TRUE)

\* a parseInfixExpression that parses its right operand at the lowest level
parseInfixExpressionLowest(p, left) ==
    (CHOOSE v \in { R(r.p, [kind |-> "InfixExpression", Left |-> left,
                  Operator |-> p.currentToken.Value, Right |-> r.node])
          : r \in {parseExpression(nextToken(p), LOWEST)} } : TRUE)

parseInfixExpression(p, left) ==
    (CHOOSE v \in { R(r.p, [kind |-> "InfixExpression", Left |-> left,
                  Operator |-> p.currentToken.Value, Right |-> r.node])
          : r \in {parseExpression(nextToken(p), curPrecedence(p))} } : TRUE)

parseGroupedExpression(p) ==
    (CHOOSE v \in {
    (CHOOSE v \in { IF ~e.ok THEN R(e.p, NIL) ELSE R(e.p, r.node)
        : e \in {expectPeek(r.p, "RPAREN")} } : TRUE)
        : r \in {parseExpression(nextToken(p), LOWEST)} } : TRUE)

parseCallExpression(p, fn) ==
    (CHOOSE v \in { R(r.p, [kind |-> "CallExpression", Function |-> fn,
                  Arguments |-> r.list])
          : r \in {parseExpressionList(p, "RPAREN")} } : TRUE)

parseIndexExpression(p, left) ==
    (CHOOSE v \in {
    (CHOOSE v \in { IF ~e.ok THEN R(e.p, NIL)
          ELSE R(e.p, [kind |-> "IndexExpression", Left |-> left,
                       Index |-> r.node])
        : e \in {expectPeek(r.p, "RBRACKET")} } : TRUE)
        : r \in {parseExpression(nextToken(p), LOWEST)} } : TRUE)

parseAssignmentExpression(p, left) ==
    IF left.kind # "Identifier"
    THEN R([p EXCEPT !.errors =
                Append(@, ParseError("invalid assignment target", <<>>))],
           NIL)
    ELSE (CHOOSE v \in { R(r.p, [kind |-> "AssignmentExpression", Name |-> left,
                       Value |-> r.node])
               : r \in {parseExpression(nextToken(p), LOWEST)} } : TRUE)

InfixTokens ==
    {"PLUS", "MINUS", "DIVIDE", "MULTIPLY", "MODULO", "EQUAL", "NOT_EQUAL",
     "LESS", "GREATER", "LESS_EQUAL", "GREATER_EQUAL", "AND", "OR"}

\* the for loop of parseExpression
RECURSIVE parseExpressionLoop(_, _, _)
parseExpressionLoop(p, precedence, leftExp) ==
    IF p.peekToken.Type # "SEMICOLON" /\ precedence < peekPrecedence(p)
    THEN (CHOOSE v \in { parseExpressionLoop(r.p, precedence, r.node)
               : r \in {LET t == p.peekToken.Type
                        IN CASE t \in InfixTokens ->
                                  parseInfixExpression(nextToken(p), leftExp)
                             [] t = "LPAREN" ->
                                  parseCallExpression(nextToken(p), leftExp)
                             [] t = "LBRACKET" ->
                                  parseIndexExpression(nextToken(p), leftExp)
                             [] t = "ASSIGN" ->
                                  parseAssignmentExpression(nextToken(p),
                                                            leftExp)} } : TRUE)
    ELSE R(p, leftExp)

parseExpression(p, precedence) ==
    LET t == p.currentToken.Type
    IN IF t \notin {"IDENTIFIER", "NUMBER", "STRING", "BOOLEAN", "LBRACKET",
                    "MINUS", "NOT", "LPAREN"}
       THEN R(noPrefixParseFnError(p, t), NIL)
       ELSE (CHOOSE v \in { parseExpressionLoop(left.p, precedence, left.node)
                  : left \in {CASE t = "IDENTIFIER" -> parseIdentifier(p)
                                [] t = "NUMBER" -> parseNumberLiteral(p)
                                [] t = "STRING" -> parseStringLiteral(p)
                                [] t = "BOOLEAN" -> parseBooleanLiteral(p)
                                [] t = "LBRACKET" -> parseFormationLiteral(p)
                                [] t \in {"MINUS", "NOT"} ->
                                     parsePrefixExpression(p)
                                [] t = "LPAREN" ->
                                     parseGroupedExpression(p)} } : TRUE)

parseExpressionStatement(p) ==
    (CHOOSE v \in { R(skipSemicolon(r.p),
            [kind |-> "ExpressionStatement", Expression |-> r.node])
          : r \in {parseExpression(p, LOWEST)} } : TRUE)

\* &ast.Identifier{Value: p.currentToken.Value}
currentIdentifier(p) == [kind |-> "Identifier", Value |-> p.currentToken.Value]

parseGridStatement(p) ==
    (CHOOSE v \in { IF ~e1.ok THEN R(e1.p, NilNode("GridStatement")) ELSE
    (CHOOSE v \in { IF ~e2.ok THEN R(e2.p, NilNode("GridStatement")) ELSE
    (CHOOSE v \in { R(skipSemicolon(r.p),
            [kind |-> "GridStatement", Name |-> currentIdentifier(e1.p),
             Value |-> r.node])
        : r  \in {parseExpression(nextToken(e2.p), LOWEST)} } : TRUE)
        : e2 \in {expectPeek(e1.p, "ASSIGN")} } : TRUE)
        : e1 \in {expectPeek(p, "IDENTIFIER")} } : TRUE)

RECURSIVE parseFunctionParametersRest(_, _)
parseFunctionParametersRest(p, identifiers) ==
    IF p.peekToken.Type = "COMMA"
    THEN (CHOOSE v \in { parseFunctionParametersRest(p2,
                   Append(identifiers, currentIdentifier(p2)))
               : p2 \in {nextToken(nextToken(p))} } : TRUE)
    ELSE [p |-> p, list |-> identifiers]

parseFunctionParameters(p) ==
    IF p.peekToken.Type = "RPAREN"
    THEN [p |-> nextToken(p), list |-> <<>>]
    ELSE
    (CHOOSE v \in {
    (CHOOSE v \in {
    (CHOOSE v \in { IF ~e.ok THEN [p |-> e.p, list |-> <<>>]
          ELSE [p |-> e.p, list |-> rest.list]
        : e    \in {expectPeek(rest.p, "RPAREN")} } : TRUE)
        : rest \in {parseFunctionParametersRest(p1, <<currentIdentifier(p1)>>)} } : TRUE)
        : p1   \in {nextToken(p)} } : TRUE)

parsePaceStatement(p) ==
    (CHOOSE v \in { IF ~e1.ok THEN R(e1.p, NilNode("PaceStatement")) ELSE
    (CHOOSE v \in { IF ~e2.ok THEN R(e2.p, NilNode("PaceStatement")) ELSE
    (CHOOSE v \in {
    (CHOOSE v \in { IF ~e3.ok THEN R(e3.p, NilNode("PaceStatement")) ELSE
    (CHOOSE v \in { R(body.p, [kind |-> "PaceStatement",
                     Name |-> currentIdentifier(e1.p),
                     Parameters |-> params.list, Body |-> body.node])
        : body   \in {parseBlockStatement(e3.p)} } : TRUE)
        : e3     \in {expectPeek(params.p, "LBRACE")} } : TRUE)
        : params \in {parseFunctionParameters(e2.p)} } : TRUE)
        : e2     \in {expectPeek(e1.p, "LPAREN")} } : TRUE)
        : e1     \in {expectPeek(p, "IDENTIFIER")} } : TRUE)

parseCircuitStatement(p) ==
    (CHOOSE v \in { IF ~e1.ok THEN R(e1.p, NilNode("CircuitStatement")) ELSE
    (CHOOSE v \in {
    (CHOOSE v \in { IF ~e2.ok THEN R(e2.p, NilNode("CircuitStatement")) ELSE
    (CHOOSE v \in { IF ~e3.ok THEN R(e3.p, NilNode("CircuitStatement")) ELSE
    (CHOOSE v \in { IF cons.p.peekToken.Type # "ELSE_CIRCUIT"
          THEN R(cons.p, [kind |-> "CircuitStatement",
                          Condition |-> cond.node,
                          Consequence |-> cons.node,
                          Alternative |-> NilNode("BlockStatement")])
          ELSE
    (CHOOSE v \in { IF ~e4.ok THEN R(e4.p, NilNode("CircuitStatement")) ELSE
    (CHOOSE v \in { R(alt.p, [kind |-> "CircuitStatement",
                    Condition |-> cond.node,
                    Consequence |-> cons.node,
                    Alternative |-> alt.node])
        : alt  \in {parseBlockStatement(e4.p)} } : TRUE)
        : e4   \in {expectPeek(nextToken(cons.p), "LBRACE")} } : TRUE)
        : cons \in {parseBlockStatement(e3.p)} } : TRUE)
        : e3   \in {expectPeek(e2.p, "LBRACE")} } : TRUE)
        : e2   \in {expectPeek(cond.p, "RPAREN")} } : TRUE)
        : cond \in {parseExpression(nextToken(e1.p), LOWEST)} } : TRUE)
        : e1   \in {expectPeek(p, "LPAREN")} } : TRUE)

parseLoopStatement(p) ==
    (CHOOSE v \in { IF ~e1.ok THEN R(e1.p, NilNode("LoopStatement")) ELSE
    (CHOOSE v \in {
    (CHOOSE v \in {
    (CHOOSE v \in { IF ~e2.ok THEN R(e2.p, NilNode("LoopStatement")) ELSE
    (CHOOSE v \in {
    (CHOOSE v \in { IF ~e3.ok THEN R(e3.p, NilNode("LoopStatement")) ELSE
    (CHOOSE v \in { IF ~e4.ok THEN R(e4.p, NilNode("LoopStatement")) ELSE
    (CHOOSE v \in { R(body.p, [kind |-> "LoopStatement", Init |-> init.node,
                     Condition |-> cond.node, Update |-> update.node,
                     Body |-> body.node])
        : body   \in {parseBlockStatement(e4.p)} } : TRUE)
        : e4     \in {expectPeek(e3.p, "LBRACE")} } : TRUE)
        : e3     \in {expectPeek(update.p, "RPAREN")} } : TRUE)
        : update \in {parseExpressionStatement(nextToken(e2.p))} } : TRUE)
        : e2     \in {expectPeek(cond.p, "SEMICOLON")} } : TRUE)
        : cond   \in {parseExpression(
                         IF init.p.currentToken.Type = "SEMICOLON"
                         THEN nextToken(init.p) ELSE init.p,
                         LOWEST)} } : TRUE)
        : init   \in {parseStatement(nextToken(e1.p))} } : TRUE)
        : e1     \in {expectPeek(p, "LPAREN")} } : TRUE)

parseWhileRacingStatement(p) ==
    (CHOOSE v \in { IF ~e1.ok THEN R(e1.p, NilNode("WhileRacingStatement")) ELSE
    (CHOOSE v \in {
    (CHOOSE v \in { IF ~e2.ok THEN R(e2.p, NilNode("WhileRacingStatement")) ELSE
    (CHOOSE v \in { IF ~e3.ok THEN R(e3.p, NilNode("WhileRacingStatement")) ELSE
    (CHOOSE v \in { R(body.p, [kind |-> "WhileRacingStatement",
                     Condition |-> cond.node, Body |-> body.node])
        : body \in {parseBlockStatement(e3.p)} } : TRUE)
        : e3   \in {expectPeek(e2.p, "LBRACE")} } : TRUE)
        : e2   \in {expectPeek(cond.p, "RPAREN")} } : TRUE)
        : cond \in {parseExpression(nextToken(e1.p), LOWEST)} } : TRUE)
        : e1   \in {expectPeek(p, "LPAREN")} } : TRUE)

parseReturnPitStatement(p) ==
    IF p.peekToken.Type # "SEMICOLON" /\ p.peekToken.Type # "NEWLINE"
    THEN (CHOOSE v \in { R(skipSemicolon(r.p),
                 [kind |-> "ReturnPitStatement", Value |-> r.node])
               : r \in {parseExpression(nextToken(p), LOWEST)} } : TRUE)
    ELSE R(skipSemicolon(p),
           [kind |-> "ReturnPitStatement", Value |-> NIL])

parseBreakFlagStatement(p) ==
    R(skipSemicolon(p), [kind |-> "BreakFlagStatement"])

parseContinueRaceStatement(p) ==
    R(skipSemicolon(p), [kind |-> "ContinueRaceStatement"])

\* the for loop of parseBlockStatement; it ends at "}" or EOF, and is cut
\* where the code would run forever
RECURSIVE parseBlockLoop(_, _)
parseBlockLoop(p, stmts) ==
    IF p.currentToken.Type \in {"RBRACE", "EOF"} \/ Stuck(p)
    THEN [p |-> p, list |-> stmts]
    ELSE IF p.currentToken.Type = "NEWLINE"
    THEN parseBlockLoop(nextToken(p), stmts)
    ELSE (CHOOSE v \in { parseBlockLoop(nextToken(r.p),
                              IF NotNil(r.node) THEN Append(stmts, r.node)
                              ELSE stmts)
               : r \in {parseStatement(p)} } : TRUE)

parseBlockStatement(p) ==
    (CHOOSE v \in { R(r.p, [kind |-> "BlockStatement", Statements |-> r.list])
          : r \in {parseBlockLoop(nextToken(p), <<>>)} } : TRUE)

parseStatement(p) ==
    LET t == p.currentToken.Type
    IN CASE t = "GRID" -> parseGridStatement(p)
         [] t = "PACE" -> parsePaceStatement(p)
         [] t = "CIRCUIT" -> parseCircuitStatement(p)
         [] t = "LOOP" -> parseLoopStatement(p)
         [] t = "WHILE_RACING" -> parseWhileRacingStatement(p)
         [] t = "RETURN_PIT" -> parseReturnPitStatement(p)
         [] t = "BREAK_FLAG" -> parseBreakFlagStatement(p)
         [] t = "CONTINUE_RACE" -> parseContinueRaceStatement(p)
         [] t = "LBRACE" -> parseBlockStatement(p)
         [] OTHER -> parseExpressionStatement(p)

\* one round of the for loop of ParseProgram, entered with
\* p.currentToken.Type != EOF
ParseProgramRound(p, stmts) ==
    IF p.currentToken.Type = "NEWLINE"
    THEN [p |-> nextToken(p), list |-> stmts]
    ELSE (CHOOSE v \in { [p    |-> nextToken(r.p),
                list |-> IF NotNil(r.node) THEN Append(stmts, r.node)
                         ELSE stmts]
               : r \in {parseStatement(p)} } : TRUE)

RECURSIVE ParseProgramLoop(_, _)
ParseProgramLoop(p, stmts) ==
    IF p.currentToken.Type = "EOF"
    THEN [p |-> p, Statements |-> stmts, returns |-> TRUE]
    ELSE IF Stuck(p)
    THEN [p |-> p, Statements |-> stmts, returns |-> FALSE]
    ELSE (CHOOSE v \in { ParseProgramLoop(r.p, r.list)
               : r \in {ParseProgramRound(p, stmts)} } : TRUE)

\* ParseProgram on a fresh parser: the Program, the parser afterwards (its
\* errors), and whether the call returns at all
ParseProgram(in) == ParseProgramLoop(NewParser(in), <<>>)

(***************************************************************************)
(* Objects.  An Object is a record with a field Type; the nil interface is *)
(* NilObj.  Arrays and functions carry the address of their allocation     *)
(* (== and != on them compare pointers).                                   *)
(***************************************************************************)
NilObj == [Type |-> "nil"]

\* the package variables NULL, TRUE and FALSE: addr names the one object
\* that each of them points to
NULL == [Type |-> "NULL", addr |-> "NULL"]

TRUE_OBJ == [Type |-> "BOOLEAN", Value |-> TRUE, addr |-> "TRUE"]

FALSE_OBJ == [Type |-> "BOOLEAN", Value |-> FALSE, addr |-> "FALSE"]

Number(v) == [Type |-> "NUMBER", Value |-> v]

String(v) == [Type |-> "STRING", Value |-> v]

ReturnValue(v) == [Type |-> "RETURN_VALUE", Value |-> v]

BreakObj == [Type |-> "BREAK"]

ContinueObj == [Type |-> "CONTINUE"]

Builtin(name) == [Type |-> "BUILTIN", Fn |-> name]

newError(text, args) == [Type |-> "ERROR", Message |-> [text |-> text, args |-> args]]

\* a nativeBoolToBooleanObject that allocates a Boolean for every result
nativeBoolToBooleanObjectFresh(b) ==
    [Type |-> "BOOLEAN", Value |-> b, addr |-> "new"]

nativeBoolToBooleanObject(b) == IF b THEN TRUE_OBJ ELSE FALSE_OBJ

isTruthy(obj) ==
    CASE obj = NULL -> FALSE
      [] obj = TRUE_OBJ -> TRUE
      [] obj = FALSE_OBJ -> FALSE
      [] OTHER -> TRUE

isError(obj) == IF obj # NilObj THEN obj.Type = "ERROR" ELSE FALSE

\* exact arithmetic on the rationals that model float64
RatAdd(a, b) == Rat(a.n * b.d + b.n * a.d, a.d * b.d)

RatSub(a, b) == Rat(a.n * b.d - b.n * a.d, a.d * b.d)

RatMul(a, b) == Rat(a.n * b.n, a.d * b.d)

RatDiv(a, b) == Rat(a.n * b.d, a.d * b.n)

RatLess(a, b) == a.n * b.d < b.n * a.d

\* int(x): truncation toward zero
RatTrunc(a) == IF a.n < 0 THEN -((-a.n) \div a.d) ELSE a.n \div a.d

\* Go's a % b on ints, b # 0: the sign follows the dividend
GoRem(a, b) ==
    LET r == Abs(a) % Abs(b)
    IN IF a < 0 THEN -r ELSE r

(***************************************************************************)
(* Environments live in a heap: envs[e] is Environment{store, outer}, with *)
(* outer = 0 for nil.  The heap is part of the interpreter state s that    *)
(* every evaluation step takes and returns.                                *)
(***************************************************************************)
NewEnvironmentRec == [store |-> <<>>, outer |-> 0]

Bound(store, name) == name \in DOMAIN store

RECURSIVE Get(_, _, _)
Get(envs, e, name) ==
    IF Bound(envs[e].store, name)
    THEN [value |-> envs[e].store[name], ok |-> TRUE]
    ELSE IF envs[e].outer # 0
    THEN Get(envs, envs[e].outer, name)
    ELSE [value |-> NilObj, ok |-> FALSE]

StoreSet(store, name, val) ==
    [k \in (DOMAIN store) \cup {name} |-> IF k = name THEN val ELSE store[k]]

\* the nearest environment of the chain of e that binds name, else e
RECURSIVE Holder(_, _, _, _)
Holder(envs, x, name, e) ==
    IF Bound(envs[x].store, name) THEN x
    ELSE IF envs[x].outer # 0 THEN Holder(envs, envs[x].outer, name, e)
    ELSE e

\* a Set that rebinds the nearest existing binding of the chain
SetOutward(envs, e, name, val) ==
    [envs EXCEPT ![Holder(envs, e, name, e)].store = StoreSet(@, name, val)]

\* e.store[name] = val
Set(envs, e, name, val) ==
    [envs EXCEPT ![e].store = StoreSet(@, name, val)]

\* a result of an evaluation step: the object and the state afterwards
Ret(val, s) == [val |-> val, s |-> s]

\* a Go panic (nil dereference, integer division by zero) unwinds the whole
\* evaluation; so does running out of the step budget of the model
Panic(s) == Ret(NilObj, [s EXCEPT !.halt = "panic"])

OutOfSteps(s) == Ret(NilObj, [s EXCEPT !.halt = "steps"])

Halted(r) == r.s.halt # "none"

\* history: obj was bound, stored as an element, passed as an argument, used
\* as an operand or returned by Eval, at the construct named by at; seen
\* holds every Boolean and Null object among them
Use(s, use, obj, at) ==
    [s EXCEPT !.uses = @ \cup {[use |-> use, Type |-> obj.Type, at |-> at]},
              !.seen = @ \cup (IF obj.Type \in {"BOOLEAN", "NULL"}
                               THEN {obj} ELSE {})]

RECURSIVE UseAll(_, _, _, _)
UseAll(s, use, objs, at) ==
    IF objs = <<>> THEN s
    ELSE UseAll(Use(s, use, Head(objs), at), use, Tail(objs), at)

EnvSet(s, e, name, val, at) ==
    Use([s EXCEPT !.envs = Set(@, e, name, val)], "bind", val, at)

\* NewEnclosedEnvironment(outer): the new environment is the last of the heap
NewEnclosedEnvironment(s, outer) ==
    [s EXCEPT !.envs = Append(@, [NewEnvironmentRec EXCEPT !.outer = outer])]

(***************************************************************************)
(* Inspect                                                                 *)
(***************************************************************************)
DigitChar(k) ==
    CASE k = 0 -> "0" [] k = 1 -> "1" [] k = 2 -> "2" [] k = 3 -> "3"
      [] k = 4 -> "4" [] k = 5 -> "5" [] k = 6 -> "6" [] k = 7 -> "7"
      [] k = 8 -> "8" [] k = 9 -> "9"

RECURSIVE NatText(_)
NatText(k) ==
    IF k < 10 THEN <<DigitChar(k)>>
    ELSE Append(NatText(k \div 10), DigitChar(k % 10))

\* the digits of r/d after the point, r < d, at most k of them
RECURSIVE FracText(_, _, _)
FracText(r, d, k) ==
    IF r = 0 \/ k = 0 THEN <<>>
    ELSE <<DigitChar((r * 10) \div d)>> \o FracText((r * 10) % d, d, k - 1)

\* fmt.Sprintf("%g", v) for the values of the model: integers in full,
\* other values with at most six digits after the point
InspectNumber(v) ==
    LET a    == Abs(v.n)
        sign == IF v.n < 0 THEN <<"-">> ELSE <<>>
        frac == FracText(a % v.d, v.d, 6)
    IN sign \o NatText(a \div v.d)
            \o (IF frac = <<>> THEN <<>> ELSE <<".">> \o frac)

\* whether obj.Inspect() dereferences a nil
RECURSIVE InspectPanics(_)
InspectPanics(obj) ==
    CASE obj.Type = "nil" -> TRUE
      [] obj.Type = "ARRAY" ->
           \E k \in 1..Len(obj.Elements) : InspectPanics(obj.Elements[k])
      [] obj.Type = "RETURN_VALUE" -> InspectPanics(obj.Value)
      [] OTHER -> FALSE

RECURSIVE Inspect(_)
RECURSIVE InspectJoin(_)
InspectJoin(objs) ==
    IF objs = <<>> THEN <<>>
    ELSE IF Len(objs) = 1 THEN Inspect(objs[1])
    ELSE Inspect(objs[1]) \o <<",", " ">> \o InspectJoin(Tail(objs))

Inspect(obj) ==
    CASE obj.Type = "NUMBER" -> InspectNumber(obj.Value)
      [] obj.Type = "STRING" -> obj.Value
      [] obj.Type = "BOOLEAN" -> IF obj.Value THEN KwTrue ELSE KwFalse
      [] obj.Type = "NULL" -> <<"n", "u", "l", "l">>
      [] obj.Type = "RETURN_VALUE" -> Inspect(obj.Value)
      [] obj.Type = "ERROR" -> <<"E", "R", "R", "O", "R", ":", " ">>
      [] obj.Type = "FUNCTION" -> <<"p", "a", "c", "e">>
      [] obj.Type = "BUILTIN" ->
           <<"b", "u", "i", "l", "t", "i", "n", " ",
             "f", "u", "n", "c", "t", "i", "o", "n">>
      [] obj.Type = "ARRAY" -> <<"[">> \o InspectJoin(obj.Elements) \o <<"]">>
      [] obj.Type = "BREAK" -> KwBreakFlag
      [] obj.Type = "CONTINUE" -> KwContinueRace

(***************************************************************************)
(* Built-in functions                                                      *)
(***************************************************************************)
Telemetry == <<"t", "e", "l", "e", "m", "e", "t", "r", "y">>
Length == <<"l", "e", "n", "g", "t", "h">>
Push == <<"p", "u", "s", "h">>

RECURSIVE InspectEach(_)
InspectEach(objs) ==
    IF objs = <<>> THEN <<>>
    ELSE <<Inspect(Head(objs))>> \o InspectEach(Tail(objs))

\* fn.Fn(args...); every invocation is recorded in s.invoked
builtinTelemetry(args, s) ==
    IF \E k \in 1..Len(args) : InspectPanics(args[k])
    THEN Panic(s)
    ELSE Ret(NULL, [s EXCEPT !.out = Append(@, InspectEach(args))])

builtinLength(args, s) ==
    IF Len(args) # 1
    THEN Ret(newError("wrong number of arguments. got=%d, want=1",
                      <<Len(args)>>), s)
    ELSE LET arg == args[1]
         IN CASE arg.Type = "ARRAY" ->
                   Ret(Number(Rat(Len(arg.Elements), 1)), s)
              [] arg.Type = "STRING" ->
                   Ret(Number(Rat(Len(arg.Value), 1)), s)
              [] OTHER ->
                   Ret(newError("argument to length not supported, got %T",
                                <<arg.Type>>), s)

\* a push that appends to the elements of its argument and returns it
builtinPushInPlace(args, s) ==
    IF Len(args) # 2
    THEN Ret(newError("wrong number of arguments. got=%d, want=2",
                      <<Len(args)>>), s)
    ELSE IF args[1] = NilObj THEN Panic(s)
    ELSE IF args[1].Type # "ARRAY"
    THEN Ret(newError("argument to push must be ARRAY, got %T",
                      <<args[1].Type>>), s)
    ELSE Ret([args[1] EXCEPT !.Elements = Append(@, args[2])],
             Use(s, "element", args[2], "push"))

builtinPush(args, s) ==
    IF Len(args) # 2
    THEN Ret(newError("wrong number of arguments. got=%d, want=2",
                      <<Len(args)>>), s)
    ELSE IF args[1] = NilObj THEN Panic(s)
    ELSE IF args[1].Type # "ARRAY"
    THEN Ret(newError("argument to push must be ARRAY, got %T",
                      <<args[1].Type>>), s)
    ELSE Ret([Type |-> "ARRAY", Elements |-> Append(args[1].Elements, args[2]),
              addr |-> s.nalloc + 1],
             Use([s EXCEPT !.nalloc = @ + 1], "element", args[2], "push"))

applyBuiltin(fn, args, s) ==
    LET s1 == [s EXCEPT !.invoked = Append(@, fn.Fn)]
    IN CASE fn.Fn = Telemetry -> builtinTelemetry(args, s1)
         [] fn.Fn = Length -> builtinLength(args, s1)
         [] fn.Fn = Push -> builtinPush(args, s1)

(***************************************************************************)
(* Evaluator.  Every handler takes the interpreter state s and returns     *)
(* Ret(object, state afterwards).                                          *)
(***************************************************************************)
\* left == right on two interface values: canonical objects and allocated
\* objects are equal when they are the same object.  Break{} and Continue{}
\* have size zero, and Go leaves open whether two such allocations are
\* equal: s.zeroSizeEq is the answer of the build.
PtrEq(left, right, s) ==
    IF left.Type # right.Type THEN FALSE
    ELSE CASE left.Type \in {"ARRAY", "FUNCTION"} -> left.addr = right.addr
           [] left.Type \in {"BREAK", "CONTINUE"} -> s.zeroSizeEq
           [] left.Type \in {"NUMBER", "STRING", "RETURN_VALUE", "ERROR"} -> FALSE
           [] OTHER -> left = right

evalBangOperatorExpression(right) ==
    CASE right = TRUE_OBJ -> FALSE_OBJ
      [] right = FALSE_OBJ -> TRUE_OBJ
      [] right = NULL -> TRUE_OBJ
      [] OTHER -> FALSE_OBJ

evalMinusPrefixOperatorExpression(right, s) ==
    IF right = NilObj THEN Panic(s)
    ELSE IF right.Type # "NUMBER"
    THEN Ret(newError("unknown operator: -%T", <<right.Type>>), s)
    ELSE Ret(Number(Rat(-right.Value.n, right.Value.d)), s)

evalPrefixExpression(operator, right, s0) ==
    (CHOOSE v \in { CASE operator = <<"!">> -> Ret(evalBangOperatorExpression(right), s)
            [] operator = <<"-">> -> evalMinusPrefixOperatorExpression(right, s)
            [] OTHER -> Ret(newError("unknown operator: %s%T",
                                     <<operator, right.Type>>), s)
          : s \in {Use(s0, "operand", right, "PrefixExpression")} } : TRUE)

evalNumberInfixExpression(operator, left, right, s) ==
    LET leftVal  == left.Value
        rightVal == right.Value
    IN CASE operator = <<"+">> -> Ret(Number(RatAdd(leftVal, rightVal)), s)
         [] operator = <<"-">> -> Ret(Number(RatSub(leftVal, rightVal)), s)
         [] operator = <<"*">> -> Ret(Number(RatMul(leftVal, rightVal)), s)
         [] operator = <<"/">> ->
              IF rightVal.n = 0
              THEN Ret(newError("division by zero", <<>>), s)
              ELSE Ret(Number(RatDiv(leftVal, rightVal)), s)
         [] operator = <<"%">> ->
              IF RatTrunc(rightVal) = 0 THEN Panic(s)
              ELSE Ret(Number(Rat(GoRem(RatTrunc(leftVal), RatTrunc(rightVal)),
                                  1)), s)
         [] operator = <<"<">> ->
              Ret(nativeBoolToBooleanObject(RatLess(leftVal, rightVal)), s)
         [] operator = <<">">> ->
              Ret(nativeBoolToBooleanObject(RatLess(rightVal, leftVal)), s)
         [] operator = <<"<", "=">> ->
              Ret(nativeBoolToBooleanObject(~RatLess(rightVal, leftVal)), s)
         [] operator = <<">", "=">> ->
              Ret(nativeBoolToBooleanObject(~RatLess(leftVal, rightVal)), s)
         [] operator = <<"=", "=">> ->
              Ret(nativeBoolToBooleanObject(leftVal = rightVal), s)
         [] operator = <<"!", "=">> ->
              Ret(nativeBoolToBooleanObject(leftVal # rightVal), s)
         [] OTHER -> Ret(newError("unknown operator: %s", <<operator>>), s)

evalStringInfixExpression(operator, left, right, s) ==
    LET leftVal  == left.Value
        rightVal == right.Value
    IN CASE operator = <<"+">> -> Ret(String(leftVal \o rightVal), s)
         [] operator = <<"=", "=">> ->
              Ret(nativeBoolToBooleanObject(leftVal = rightVal), s)
         [] operator = <<"!", "=">> ->
              Ret(nativeBoolToBooleanObject(leftVal # rightVal), s)
         [] OTHER -> Ret(newError("unknown operator: %T %s %T",
                                  <<left.Type, operator, right.Type>>), s)

\* the cases of the switch are tried in order; x.Type() on a nil x panics
evalInfixExpression(operator, left, right, s0) ==
    (CHOOSE v \in { IF left = NilObj THEN Panic(s)
          ELSE IF left.Type = "NUMBER" /\ right = NilObj THEN Panic(s)
          ELSE IF left.Type = "NUMBER" /\ right.Type = "NUMBER"
          THEN evalNumberInfixExpression(operator, left, right, s)
          ELSE IF left.Type = "STRING" /\ right = NilObj THEN Panic(s)
          ELSE IF left.Type = "STRING" /\ right.Type = "STRING"
          THEN evalStringInfixExpression(operator, left, right, s)
          ELSE IF operator = <<"&", "&">>
          THEN Ret(nativeBoolToBooleanObject(isTruthy(left) /\ isTruthy(right)),
                   s)
          ELSE IF operator = <<"|", "|">>
          THEN Ret(nativeBoolToBooleanObject(isTruthy(left) \/ isTruthy(right)),
                   s)
          ELSE IF operator = <<"=", "=">>
          THEN Ret(nativeBoolToBooleanObject(PtrEq(left, right, s)), s)
          ELSE IF operator = <<"!", "=">>
          THEN Ret(nativeBoolToBooleanObject(~PtrEq(left, right, s)), s)
          ELSE IF right = NilObj THEN Panic(s)
          ELSE IF left.Type # right.Type
          THEN Ret(newError("type mismatch: %T %s %T",
                            <<left.Type, operator, right.Type>>), s)
          ELSE Ret(newError("unknown operator: %T %s %T",
                            <<left.Type, operator, right.Type>>), s)
          : s \in {Use(Use(s0, "operand", left, "InfixExpression"),
                       "operand", right, "InfixExpression")} } : TRUE)

evalArrayIndexExpression(array, index) ==
    LET idx == RatTrunc(index.Value)
        max == Len(array.Elements) - 1
    IN IF idx < 0 \/ idx > max THEN NULL ELSE array.Elements[idx + 1]

evalIndexExpression(left, index, s0) ==
    (CHOOSE v \in { IF left = NilObj THEN Panic(s)
          ELSE IF left.Type = "ARRAY" /\ index = NilObj THEN Panic(s)
          ELSE IF left.Type = "ARRAY" /\ index.Type = "NUMBER"
          THEN Ret(evalArrayIndexExpression(left, index), s)
          ELSE Ret(newError("index operator not supported: %T", <<left.Type>>),
                   s)
          : s \in {Use(Use(s0, "operand", left, "IndexExpression"),
                       "operand", index, "IndexExpression")} } : TRUE)

evalIdentifier(node, env, s) ==
    (CHOOSE v \in { IF ~g.ok
          THEN Ret(newError("identifier not found: ", <<node.Value>>), s)
          ELSE Ret(g.value, s)
          : g \in {Get(s.envs, env, node.Value)} } : TRUE)

\* for paramIdx, param := range fn.Parameters
RECURSIVE bindParameters(_, _, _, _, _)
bindParameters(params, args, paramIdx, env, s) ==
    IF paramIdx >= Len(params) THEN s
    ELSE bindParameters(params, args, paramIdx + 1, env,
            IF paramIdx < Len(args)
            THEN EnvSet(s, env, params[paramIdx + 1].Value, args[paramIdx + 1],
                        "parameter")
            ELSE s)

\* the state afterwards; the environment returned is the last of its heap
extendFunctionEnv(fn, args, s) ==
    (CHOOSE v \in { bindParameters(fn.Parameters, args, 0, Len(s1.envs), s1)
          : s1 \in {NewEnclosedEnvironment(s, fn.Env)} } : TRUE)

unwrapReturnValue(obj) ==
    IF obj.Type = "RETURN_VALUE" THEN obj.Value ELSE obj

\* history of a finished call of a user function: the function, its call
\* environment, and the environments older than the call that the call changed
Frame(fn, env, before, after) ==
    [fn |-> fn.addr, env |-> env,
     touched |-> {e \in 1..Len(before.envs) : after.envs[e] # before.envs[e]}]

RECURSIVE Eval(_, _, _)
RECURSIVE evalBlockLoop(_, _, _, _, _)
RECURSIVE evalLoopRounds(_, _, _, _)
RECURSIVE evalWhileRounds(_, _, _, _)
RECURSIVE evalExpressionsFrom(_, _, _, _, _)

\* an evaluation of the arguments that goes on after an Error
evalExpressionsFromAll(exps, k, env, s, result) ==
    IF k > Len(exps) THEN Ret(result, s)
    ELSE (CHOOSE v \in { IF Halted(evaluated) THEN evaluated
               ELSE evalExpressionsFrom(exps, k + 1, env, evaluated.s,
                                        Append(result, evaluated.val))
               : evaluated \in {Eval(exps[k], env, s)} } : TRUE)

evalExpressionsFrom(exps, k, env, s, result) ==
    IF k > Len(exps) THEN Ret(result, s)
    ELSE (CHOOSE v \in { IF Halted(evaluated) THEN evaluated
               ELSE IF isError(evaluated.val)
               THEN Ret(<<evaluated.val>>, evaluated.s)
               ELSE evalExpressionsFrom(exps, k + 1, env, evaluated.s,
                                        Append(result, evaluated.val))
               : evaluated \in {Eval(exps[k], env, s)} } : TRUE)

\* Ret(list of objects, state)
evalExpressions(exps, env, s) == evalExpressionsFrom(exps, 1, env, s, <<>>)

applyFunction(fn, args, s0) ==
    (CHOOSE v \in { CASE fn.Type = "FUNCTION" ->
              IF s.steps >= MaxSteps THEN OutOfSteps(s)
              ELSE
              (CHOOSE v \in {
              (CHOOSE v \in { IF Halted(evaluated) THEN evaluated
                    ELSE Ret(unwrapReturnValue(evaluated.val),
                             [evaluated.s EXCEPT !.frames = @ \cup
                                 {Frame(fn, Len(s1.envs), s, evaluated.s)}])
                  : evaluated \in {Eval(fn.Body, Len(s1.envs), s1)} } : TRUE)
                  : s1 \in {extendFunctionEnv(fn, args,
                                              [s EXCEPT !.steps = @ + 1])} } : TRUE)
            [] fn.Type = "BUILTIN" -> applyBuiltin(fn, args, s)
            [] OTHER -> Ret(newError("not a function: %T", <<fn.Type>>), s)
          : s \in {UseAll(s0, "arg", args, fn.Type)} } : TRUE)

evalBlockLoop(stmts, k, env, s, result) ==
    IF k > Len(stmts) THEN Ret(result, s)
    ELSE (CHOOSE v \in { IF Halted(r) THEN r
               ELSE IF r.val # NilObj
                       /\ r.val.Type \in {"RETURN_VALUE", "ERROR", "BREAK",
                                          "CONTINUE"}
               THEN r
               ELSE evalBlockLoop(stmts, k + 1, env, r.s, r.val)
               : r \in {Eval(stmts[k], env, s)} } : TRUE)

evalBlockStatement(block, env, s) ==
    evalBlockLoop(block.Statements, 1, env, s, NilObj)

evalCircuitStatement(node, env, s) ==
    (CHOOSE v \in { IF Halted(condition) THEN condition
          ELSE IF isError(condition.val) THEN condition
          ELSE IF isTruthy(condition.val)
          THEN Eval(node.Consequence, env, condition.s)
          ELSE IF ~IsNilPtr(node.Alternative)
          THEN Eval(node.Alternative, env, condition.s)
          ELSE Ret(NULL, condition.s)
          : condition \in {Eval(node.Condition, env, s)} } : TRUE)

\* rounds of a for statement in which continue_race goes to the condition
\* without the update
evalLoopRoundsSkipUpdate(node, loopEnv, s, result) ==
    IF s.steps >= MaxSteps THEN OutOfSteps(s)
    ELSE
    (CHOOSE v \in { IF Halted(condition) THEN condition
          ELSE IF isError(condition.val) THEN condition
          ELSE IF ~isTruthy(condition.val) THEN Ret(result, condition.s)
          ELSE
    (CHOOSE v \in { IF Halted(body) THEN body
          ELSE IF body.val # NilObj
                  /\ body.val.Type \in {"RETURN_VALUE", "ERROR"}
          THEN body
          ELSE IF body.val # NilObj /\ body.val.Type = "BREAK"
          THEN Ret(NULL, body.s)
          ELSE IF body.val # NilObj /\ body.val.Type = "CONTINUE"
          THEN evalLoopRounds(node, loopEnv, body.s, body.val)
          ELSE
    (CHOOSE v \in { IF Halted(updateResult) THEN updateResult
          ELSE IF isError(updateResult.val) THEN updateResult
          ELSE evalLoopRounds(node, loopEnv, updateResult.s, body.val)
        : updateResult \in {IF NotNil(node.Update)
                            THEN Eval(node.Update, loopEnv, body.s)
                            ELSE Ret(NilObj, body.s)} } : TRUE)
        : body \in {Eval(node.Body, loopEnv, condition.s)} } : TRUE)
        : condition \in {IF NotNil(node.Condition)
                         THEN Eval(node.Condition, loopEnv,
                                   [s EXCEPT !.steps = @ + 1])
                         ELSE Ret(TRUE_OBJ, [s EXCEPT !.steps = @ + 1])} } : TRUE)

\* the rounds of the for statement of evalLoopStatement; result is the
\* variable result of the function
evalLoopRounds(node, loopEnv, s, result) ==
    IF s.steps >= MaxSteps THEN OutOfSteps(s)
    ELSE
    (CHOOSE v \in { IF Halted(condition) THEN condition
          ELSE IF isError(condition.val) THEN condition
          ELSE IF ~isTruthy(condition.val) THEN Ret(result, condition.s)
          ELSE
    (CHOOSE v \in { IF Halted(body) THEN body
          ELSE IF body.val # NilObj
                  /\ body.val.Type \in {"RETURN_VALUE", "ERROR"}
          THEN body
          ELSE IF body.val # NilObj /\ body.val.Type = "BREAK"
          THEN Ret(NULL, body.s)
          ELSE
    (CHOOSE v \in { IF Halted(updateResult) THEN updateResult
          ELSE IF isError(updateResult.val) THEN updateResult
          ELSE evalLoopRounds(node, loopEnv, updateResult.s, body.val)
        : updateResult \in {IF NotNil(node.Update)
                            THEN Eval(node.Update, loopEnv, body.s)
                            ELSE Ret(NilObj, body.s)} } : TRUE)
        : body \in {Eval(node.Body, loopEnv, condition.s)} } : TRUE)
        : condition \in {IF NotNil(node.Condition)
                         THEN Eval(node.Condition, loopEnv,
                                   [s EXCEPT !.steps = @ + 1])
                         ELSE Ret(TRUE_OBJ, [s EXCEPT !.steps = @ + 1])} } : TRUE)

\* a for statement that runs in the environment of the statement
evalLoopStatementNoScope(node, env, s) ==
    (CHOOSE v \in { IF Halted(init) THEN init
          ELSE IF isError(init.val) THEN init
          ELSE evalLoopRounds(node, env, init.s, NULL)
        : init \in {IF NotNil(node.Init)
                    THEN Eval(node.Init, env, s)
                    ELSE Ret(NilObj, s)} } : TRUE)

evalLoopStatement(node, env, s) ==
    (CHOOSE v \in {
    (CHOOSE v \in { IF Halted(init) THEN init
          ELSE IF isError(init.val) THEN init
          ELSE evalLoopRounds(node, Len(s1.envs), init.s, NULL)
        : init \in {IF NotNil(node.Init)
                    THEN Eval(node.Init, Len(s1.envs), s1)
                    ELSE Ret(NilObj, s1)} } : TRUE)
        : s1 \in {NewEnclosedEnvironment(s, env)} } : TRUE)

\* the rounds of the for statement of evalWhileRacingStatement
evalWhileRounds(node, env, s, result) ==
    IF s.steps >= MaxSteps THEN OutOfSteps(s)
    ELSE
    (CHOOSE v \in { IF Halted(condition) THEN condition
          ELSE IF isError(condition.val) THEN condition
          ELSE IF ~isTruthy(condition.val) THEN Ret(result, condition.s)
          ELSE
    (CHOOSE v \in { IF Halted(body) THEN body
          ELSE IF body.val # NilObj
                  /\ body.val.Type \in {"RETURN_VALUE", "ERROR"}
          THEN body
          ELSE IF body.val # NilObj /\ body.val.Type = "BREAK"
          THEN Ret(NULL, body.s)
          ELSE evalWhileRounds(node, env, body.s, body.val)
        : body \in {Eval(node.Body, env, condition.s)} } : TRUE)
        : condition \in {Eval(node.Condition, env,
                              [s EXCEPT !.steps = @ + 1])} } : TRUE)

evalWhileRacingStatement(node, env, s) == evalWhileRounds(node, env, s, NULL)

\* a GridStatement without the isError check
evalGridStatementUnchecked(node, env, s) ==
    (CHOOSE v \in { IF Halted(val) THEN val
          ELSE Ret(val.val, EnvSet(val.s, env, node.Name.Value, val.val,
                                   "GridStatement"))
          : val \in {Eval(node.Value, env, s)} } : TRUE)

evalGridStatement(node, env, s) ==
    (CHOOSE v \in { IF Halted(val) THEN val
          ELSE IF isError(val.val) THEN val
          ELSE Ret(val.val, EnvSet(val.s, env, node.Name.Value, val.val,
                                   "GridStatement"))
          : val \in {Eval(node.Value, env, s)} } : TRUE)

\* a PaceStatement that captures a copy of the current environment
evalPaceStatementByCopy(node, env, s) ==
    LET s1 == [s EXCEPT !.envs = Append(@, @[env])]
        fn == [Type |-> "FUNCTION", Parameters |-> node.Parameters,
               Body |-> node.Body, Env |-> Len(s.envs) + 1,
               addr |-> s.nalloc + 1]
    IN Ret(fn, EnvSet([s1 EXCEPT !.nalloc = @ + 1,
                                 !.decl = @ \cup {[fn |-> fn.addr, env |-> env]}],
                      env, node.Name.Value, fn, "PaceStatement"))

evalPaceStatement(node, env, s) ==
    LET fn == [Type |-> "FUNCTION", Parameters |-> node.Parameters,
               Body |-> node.Body, Env |-> env, addr |-> s.nalloc + 1]
    IN Ret(fn, EnvSet([s EXCEPT !.nalloc = @ + 1,
                                !.decl = @ \cup {[fn |-> fn.addr, env |-> env]}],
                      env, node.Name.Value, fn, "PaceStatement"))

evalReturnPitStatement(node, env, s) ==
    IF NotNil(node.Value)
    THEN (CHOOSE v \in { IF Halted(evaluated) THEN evaluated
               ELSE IF isError(evaluated.val) THEN evaluated
               ELSE Ret(ReturnValue(evaluated.val), evaluated.s)
               : evaluated \in {Eval(node.Value, env, s)} } : TRUE)
    ELSE Ret(ReturnValue(NULL), s)

evalFormationLiteral(node, env, s) ==
    (CHOOSE v \in { IF Halted(elements) THEN elements
          ELSE IF Len(elements.val) = 1 /\ isError(elements.val[1])
          THEN Ret(elements.val[1], elements.s)
          ELSE Ret([Type |-> "ARRAY", Elements |-> elements.val,
                    addr |-> elements.s.nalloc + 1],
                   UseAll([elements.s EXCEPT !.nalloc = @ + 1], "element",
                          elements.val, "FormationLiteral"))
          : elements \in {evalExpressions(node.Elements, env, s)} } : TRUE)

evalIndexNode(node, env, s) ==
    (CHOOSE v \in { IF Halted(left) THEN left
          ELSE IF isError(left.val) THEN left
          ELSE
    (CHOOSE v \in { IF Halted(index) THEN index
          ELSE IF isError(index.val) THEN index
          ELSE evalIndexExpression(left.val, index.val, index.s)
        : index \in {Eval(node.Index, env, left.s)} } : TRUE)
        : left \in {Eval(node.Left, env, s)} } : TRUE)

evalPrefixNode(node, env, s) ==
    (CHOOSE v \in { IF Halted(right) THEN right
          ELSE IF isError(right.val) THEN right
          ELSE evalPrefixExpression(node.Operator, right.val, right.s)
          : right \in {Eval(node.Right, env, s)} } : TRUE)

evalInfixNode(node, env, s) ==
    (CHOOSE v \in { IF Halted(left) THEN left
          ELSE IF isError(left.val) THEN left
          ELSE
    (CHOOSE v \in { IF Halted(right) THEN right
          ELSE IF isError(right.val) THEN right
          ELSE evalInfixExpression(node.Operator, left.val, right.val, right.s)
        : right \in {Eval(node.Right, env, left.s)} } : TRUE)
        : left \in {Eval(node.Left, env, s)} } : TRUE)

evalCallNode(node, env, s) ==
    (CHOOSE v \in { IF Halted(function) THEN function
          ELSE IF isError(function.val) THEN function
          ELSE
    (CHOOSE v \in { IF Halted(args) THEN args
          ELSE IF Len(args.val) = 1 /\ isError(args.val[1])
          THEN Ret(args.val[1], args.s)
          ELSE applyFunction(function.val, args.val, args.s)
        : args \in {evalExpressions(node.Arguments, env, function.s)} } : TRUE)
        : function \in {Eval(node.Function, env, s)} } : TRUE)

evalAssignmentExpression(node, env, s) ==
    (CHOOSE v \in { IF Halted(val) THEN val
          ELSE IF isError(val.val) THEN val
          ELSE Ret(val.val, EnvSet(val.s, env, node.Name.Value, val.val,
                                   "AssignmentExpression"))
          : val \in {Eval(node.Value, env, s)} } : TRUE)

\* the type switch of Eval.  A nil pointer matches the case of its type and
\* is dereferenced there; the nil interface falls to the default case.
EvalSwitch(node, env, s) ==
    LET k == node.kind
    IN CASE k = "nil" ->
              IF node = NIL
              THEN Ret(newError("unknown node type: %T", <<"nil">>), s)
              ELSE Panic(s)
         [] k = "GridStatement" -> evalGridStatement(node, env, s)
         [] k = "PaceStatement" -> evalPaceStatement(node, env, s)
         [] k = "CircuitStatement" -> evalCircuitStatement(node, env, s)
         [] k = "LoopStatement" -> evalLoopStatement(node, env, s)
         [] k = "WhileRacingStatement" -> evalWhileRacingStatement(node, env, s)
         [] k = "ReturnPitStatement" -> evalReturnPitStatement(node, env, s)
         [] k = "BreakFlagStatement" -> Ret(BreakObj, s)
         [] k = "ContinueRaceStatement" -> Ret(ContinueObj, s)
         [] k = "BlockStatement" -> evalBlockStatement(node, env, s)
         [] k = "ExpressionStatement" -> Eval(node.Expression, env, s)
         [] k = "NumberLiteral" -> Ret(Number(node.Value), s)
         [] k = "StringLiteral" -> Ret(String(node.Value), s)
         [] k = "BooleanLiteral" -> Ret(nativeBoolToBooleanObject(node.Value), s)
         [] k = "FormationLiteral" -> evalFormationLiteral(node, env, s)
         [] k = "IndexExpression" -> evalIndexNode(node, env, s)
         [] k = "Identifier" -> evalIdentifier(node, env, s)
         [] k = "PrefixExpression" -> evalPrefixNode(node, env, s)
         [] k = "InfixExpression" -> evalInfixNode(node, env, s)
         [] k = "CallExpression" -> evalCallNode(node, env, s)
         [] k = "AssignmentExpression" -> evalAssignmentExpression(node, env, s)

\* Eval, with the history of what it returned for which kind of node
Eval(node, env, s) ==
    (CHOOSE v \in { IF Halted(r) THEN r
          ELSE Ret(r.val, Use(r.s, "result", r.val, node.kind))
          : r \in {EvalSwitch(node, env, s)} } : TRUE)

(***************************************************************************)
(* The interpreter                                                         *)
(***************************************************************************)
\* NewInterpreter: the root environment, envs[1], holds the built-ins
NewInterpreter(zeroSizeEq) ==
    [envs       |-> <<[store |-> [name \in {Telemetry, Length, Push} |->
                                     Builtin(name)],
                       outer |-> 0]>>,
     out        |-> <<>>,
     nalloc     |-> 0,
     steps      |-> 0,
     halt       |-> "none",
     zeroSizeEq |-> zeroSizeEq,
     uses       |-> {},
     seen       |-> {},
     frames     |-> {},
     decl       |-> {},
     invoked    |-> <<>>]

RootEnv == 1

\* Execute without the check of the diagnostics
ParseFailedIgnored(errors) == FALSE

\* if len(parser.Errors()) > 0
ParseFailed(errors) == Len(errors) > 0

\* evalProgram without the case *Error
evalProgramSwitchNoError(res) ==
    CASE res.Type = "RETURN_VALUE" -> [returns |-> TRUE, value |-> res.Value]
      [] OTHER -> [returns |-> FALSE, value |-> res]

\* the type switch in the loop of evalProgram: whether evalProgram returns
\* at this result, and with which object
evalProgramSwitch(res) ==
    CASE res.Type = "RETURN_VALUE" -> [returns |-> TRUE, value |-> res.Value]
      [] res.Type = "ERROR" -> [returns |-> TRUE, value |-> res]
      [] OTHER -> [returns |-> FALSE, value |-> res]

(***************************************************************************)
(* Source texts that Execute is called with                                *)
(***************************************************************************)
\* grid a = 1
\* grid b = a + 1
\* telemetry(a, b)
SrcPlain ==
    <<"g", "r", "i", "d", " ", "a", " ", "=", " ", "1", "\n", "g", "r",
      "i", "d", " ", "b", " ", "=", " ", "a", " ", "+", " ", "1", "\n",
      "t", "e", "l", "e", "m", "e", "t", "r", "y", "(", "a", ",", " ", "b",
      ")">>

\* grid a = 1
\* grid b = zz
\* grid c = 3
SrcOrderError ==
    <<"g", "r", "i", "d", " ", "a", " ", "=", " ", "1", "\n", "g", "r",
      "i", "d", " ", "b", " ", "=", " ", "z", "z", "\n", "g", "r", "i",
      "d", " ", "c", " ", "=", " ", "3">>

\* grid a = 1
\* return_pit a + 1
\* grid c = 3
SrcOrderReturn ==
    <<"g", "r", "i", "d", " ", "a", " ", "=", " ", "1", "\n", "r", "e",
      "t", "u", "r", "n", "_", "p", "i", "t", " ", "a", " ", "+", " ", "1",
      "\n", "g", "r", "i", "d", " ", "c", " ", "=", " ", "3">>

\* grid x = 1
\* pace f() { return_pit x }
\* pace g() { grid x = 2
\* return_pit f() }
\* grid r = g()
SrcLexicalScope ==
    <<"g", "r", "i", "d", " ", "x", " ", "=", " ", "1", "\n", "p", "a",
      "c", "e", " ", "f", "(", ")", " ", "{", " ", "r", "e", "t", "u", "r",
      "n", "_", "p", "i", "t", " ", "x", " ", "}", "\n", "p", "a", "c",
      "e", " ", "g", "(", ")", " ", "{", " ", "g", "r", "i", "d", " ", "x",
      " ", "=", " ", "2", "\n", "r", "e", "t", "u", "r", "n", "_", "p",
      "i", "t", " ", "f", "(", ")", " ", "}", "\n", "g", "r", "i", "d",
      " ", "r", " ", "=", " ", "g", "(", ")">>

\* pace f() { return_pit y }
\* grid y = 5
\* grid r = f()
SrcLateBinding ==
    <<"p", "a", "c", "e", " ", "f", "(", ")", " ", "{", " ", "r", "e", "t",
      "u", "r", "n", "_", "p", "i", "t", " ", "y", " ", "}", "\n", "g",
      "r", "i", "d", " ", "y", " ", "=", " ", "5", "\n", "g", "r", "i",
      "d", " ", "r", " ", "=", " ", "f", "(", ")">>

\* grid x = 1
\* pace f(p) { x = 2
\* grid w = p
\* pace h() { }
\* return_pit x }
\* grid r = f(3)
SrcShadow ==
    <<"g", "r", "i", "d", " ", "x", " ", "=", " ", "1", "\n", "p", "a",
      "c", "e", " ", "f", "(", "p", ")", " ", "{", " ", "x", " ", "=", " ",
      "2", "\n", "g", "r", "i", "d", " ", "w", " ", "=", " ", "p", "\n",
      "p", "a", "c", "e", " ", "h", "(", ")", " ", "{", " ", "}", "\n",
      "r", "e", "t", "u", "r", "n", "_", "p", "i", "t", " ", "x", " ", "}",
      "\n", "g", "r", "i", "d", " ", "r", " ", "=", " ", "f", "(", "3",
      ")">>

\* pace make_counter() { grid n = 0
\* pace inc() { n = n + 1
\* return_pit n }
\* return_pit inc }
\* grid c = make_counter()
\* grid a = c()
\* grid b = c()
SrcCounter ==
    <<"p", "a", "c", "e", " ", "m", "a", "k", "e", "_", "c", "o", "u", "n",
      "t", "e", "r", "(", ")", " ", "{", " ", "g", "r", "i", "d", " ", "n",
      " ", "=", " ", "0", "\n", "p", "a", "c", "e", " ", "i", "n", "c",
      "(", ")", " ", "{", " ", "n", " ", "=", " ", "n", " ", "+", " ", "1",
      "\n", "r", "e", "t", "u", "r", "n", "_", "p", "i", "t", " ", "n",
      " ", "}", "\n", "r", "e", "t", "u", "r", "n", "_", "p", "i", "t",
      " ", "i", "n", "c", " ", "}", "\n", "g", "r", "i", "d", " ", "c",
      " ", "=", " ", "m", "a", "k", "e", "_", "c", "o", "u", "n", "t", "e",
      "r", "(", ")", "\n", "g", "r", "i", "d", " ", "a", " ", "=", " ",
      "c", "(", ")", "\n", "g", "r", "i", "d", " ", "b", " ", "=", " ",
      "c", "(", ")">>

\* pace f() { break_flag }
\* grid x = f()
SrcBreakValue ==
    <<"p", "a", "c", "e", " ", "f", "(", ")", " ", "{", " ", "b", "r", "e",
      "a", "k", "_", "f", "l", "a", "g", " ", "}", "\n", "g", "r", "i",
      "d", " ", "x", " ", "=", " ", "f", "(", ")">>

\* pace f() { continue_race }
\* telemetry(f())
SrcContinueArg ==
    <<"p", "a", "c", "e", " ", "f", "(", ")", " ", "{", " ", "c", "o", "n",
      "t", "i", "n", "u", "e", "_", "r", "a", "c", "e", " ", "}", "\n",
      "t", "e", "l", "e", "m", "e", "t", "r", "y", "(", "f", "(", ")", ")">>

\* pace f() { break_flag }
\* grid a = [f()]
SrcCarrierElement ==
    <<"p", "a", "c", "e", " ", "f", "(", ")", " ", "{", " ", "b", "r", "e",
      "a", "k", "_", "f", "l", "a", "g", " ", "}", "\n", "g", "r", "i",
      "d", " ", "a", " ", "=", " ", "[", "f", "(", ")", "]">>

\* pace f() { continue_race }
\* !f()
SrcCarrierOperand ==
    <<"p", "a", "c", "e", " ", "f", "(", ")", " ", "{", " ", "c", "o", "n",
      "t", "i", "n", "u", "e", "_", "r", "a", "c", "e", " ", "}", "\n",
      "!", "f", "(", ")">>

\* grid a = [1, zz]
SrcErrorElement ==
    <<"g", "r", "i", "d", " ", "a", " ", "=", " ", "[", "1", ",", " ", "z",
      "z", "]">>

\* pace f(p) { return_pit p }
\* grid r = f(1 / 0)
SrcErrorArg ==
    <<"p", "a", "c", "e", " ", "f", "(", "p", ")", " ", "{", " ", "r", "e",
      "t", "u", "r", "n", "_", "p", "i", "t", " ", "p", " ", "}", "\n",
      "g", "r", "i", "d", " ", "r", " ", "=", " ", "f", "(", "1", " ", "/",
      " ", "0", ")">>

\* pace f() { return_pit 1 + true }
\* x = f()
SrcErrorAssign ==
    <<"p", "a", "c", "e", " ", "f", "(", ")", " ", "{", " ", "r", "e", "t",
      "u", "r", "n", "_", "p", "i", "t", " ", "1", " ", "+", " ", "t", "r",
      "u", "e", " ", "}", "\n", "x", " ", "=", " ", "f", "(", ")">>

\* grid i = 0
\* grid n = 0
\* while_racing (i < 3) { i = i + 1
\* circuit (i == 2) { break_flag }
\* n = n + 1 }
\* grid after = 1
SrcBreakInWhile ==
    <<"g", "r", "i", "d", " ", "i", " ", "=", " ", "0", "\n", "g", "r",
      "i", "d", " ", "n", " ", "=", " ", "0", "\n", "w", "h", "i", "l",
      "e", "_", "r", "a", "c", "i", "n", "g", " ", "(", "i", " ", "<", " ",
      "3", ")", " ", "{", " ", "i", " ", "=", " ", "i", " ", "+", " ", "1",
      "\n", "c", "i", "r", "c", "u", "i", "t", " ", "(", "i", " ", "=",
      "=", " ", "2", ")", " ", "{", " ", "b", "r", "e", "a", "k", "_", "f",
      "l", "a", "g", " ", "}", "\n", "n", " ", "=", " ", "n", " ", "+",
      " ", "1", " ", "}", "\n", "g", "r", "i", "d", " ", "a", "f", "t",
      "e", "r", " ", "=", " ", "1">>

\* loop (grid i = 0; i < 2; i = i + 1) { loop (grid j = 0; j < 3; j = j + 1) { circuit (j == 1) { { break_flag } }
\* telemetry(i, j) }
\* telemetry(i) }
SrcNestedBreak ==
    <<"l", "o", "o", "p", " ", "(", "g", "r", "i", "d", " ", "i", " ", "=",
      " ", "0", ";", " ", "i", " ", "<", " ", "2", ";", " ", "i", " ", "=",
      " ", "i", " ", "+", " ", "1", ")", " ", "{", " ", "l", "o", "o", "p",
      " ", "(", "g", "r", "i", "d", " ", "j", " ", "=", " ", "0", ";", " ",
      "j", " ", "<", " ", "3", ";", " ", "j", " ", "=", " ", "j", " ", "+",
      " ", "1", ")", " ", "{", " ", "c", "i", "r", "c", "u", "i", "t", " ",
      "(", "j", " ", "=", "=", " ", "1", ")", " ", "{", " ", "{", " ", "b",
      "r", "e", "a", "k", "_", "f", "l", "a", "g", " ", "}", " ", "}",
      "\n", "t", "e", "l", "e", "m", "e", "t", "r", "y", "(", "i", ",",
      " ", "j", ")", " ", "}", "\n", "t", "e", "l", "e", "m", "e", "t",
      "r", "y", "(", "i", ")", " ", "}">>

\* loop (grid i = 0; i < 3; i = i + 1) { circuit (i == 1) { continue_race }
\* telemetry(i) }
\* grid after = 1
SrcContinueInFor ==
    <<"l", "o", "o", "p", " ", "(", "g", "r", "i", "d", " ", "i", " ", "=",
      " ", "0", ";", " ", "i", " ", "<", " ", "3", ";", " ", "i", " ", "=",
      " ", "i", " ", "+", " ", "1", ")", " ", "{", " ", "c", "i", "r", "c",
      "u", "i", "t", " ", "(", "i", " ", "=", "=", " ", "1", ")", " ", "{",
      " ", "c", "o", "n", "t", "i", "n", "u", "e", "_", "r", "a", "c", "e",
      " ", "}", "\n", "t", "e", "l", "e", "m", "e", "t", "r", "y", "(",
      "i", ")", " ", "}", "\n", "g", "r", "i", "d", " ", "a", "f", "t",
      "e", "r", " ", "=", " ", "1">>

\* loop (grid i = 0; i < 2; i = i + 1) { loop (grid j = 0; j < 1; j = j + 1) { continue_race }
\* telemetry(i) }
SrcContinueLeak ==
    <<"l", "o", "o", "p", " ", "(", "g", "r", "i", "d", " ", "i", " ", "=",
      " ", "0", ";", " ", "i", " ", "<", " ", "2", ";", " ", "i", " ", "=",
      " ", "i", " ", "+", " ", "1", ")", " ", "{", " ", "l", "o", "o", "p",
      " ", "(", "g", "r", "i", "d", " ", "j", " ", "=", " ", "0", ";", " ",
      "j", " ", "<", " ", "1", ";", " ", "j", " ", "=", " ", "j", " ", "+",
      " ", "1", ")", " ", "{", " ", "c", "o", "n", "t", "i", "n", "u", "e",
      "_", "r", "a", "c", "e", " ", "}", "\n", "t", "e", "l", "e", "m",
      "e", "t", "r", "y", "(", "i", ")", " ", "}">>

\* grid i = 0
\* while_racing (i < 2) { i = i + 1
\* continue_race }
SrcContinueWhile ==
    <<"g", "r", "i", "d", " ", "i", " ", "=", " ", "0", "\n", "w", "h",
      "i", "l", "e", "_", "r", "a", "c", "i", "n", "g", " ", "(", "i", " ",
      "<", " ", "2", ")", " ", "{", " ", "i", " ", "=", " ", "i", " ", "+",
      " ", "1", "\n", "c", "o", "n", "t", "i", "n", "u", "e", "_", "r",
      "a", "c", "e", " ", "}">>

\* pace f() { }
\* grid x = f()
SrcEmptyBody ==
    <<"p", "a", "c", "e", " ", "f", "(", ")", " ", "{", " ", "}", "\n",
      "g", "r", "i", "d", " ", "x", " ", "=", " ", "f", "(", ")">>

\* pace f() { }
\* telemetry(f())
SrcEmptyBodyArg ==
    <<"p", "a", "c", "e", " ", "f", "(", ")", " ", "{", " ", "}", "\n",
      "t", "e", "l", "e", "m", "e", "t", "r", "y", "(", "f", "(", ")", ")">>

\* circuit (true) { }
SrcEmptyIf ==
    <<"c", "i", "r", "c", "u", "i", "t", " ", "(", "t", "r", "u", "e", ")",
      " ", "{", " ", "}">>

\* loop (grid i = 0; i < 1; i = i + 1) { }
SrcEmptyLoop ==
    <<"l", "o", "o", "p", " ", "(", "g", "r", "i", "d", " ", "i", " ", "=",
      " ", "0", ";", " ", "i", " ", "<", " ", "1", ";", " ", "i", " ", "=",
      " ", "i", " ", "+", " ", "1", ")", " ", "{", " ", "}">>

\* pace f() { }
\* f() + 1
SrcEmptyOperand ==
    <<"p", "a", "c", "e", " ", "f", "(", ")", " ", "{", " ", "}", "\n",
      "f", "(", ")", " ", "+", " ", "1">>

\* telemetry(1)
\* grid z = 1
\* grid = 2
SrcParseError ==
    <<"t", "e", "l", "e", "m", "e", "t", "r", "y", "(", "1", ")", "\n",
      "g", "r", "i", "d", " ", "z", " ", "=", " ", "1", "\n", "g", "r",
      "i", "d", " ", "=", " ", "2">>

\* telemetry(x)
SrcProbe ==
    <<"t", "e", "l", "e", "m", "e", "t", "r", "y", "(", "x", ")">>

\* x = &
SrcStray ==
    <<"x", " ", "=", " ", "&">>

\* grid a = true && 0
\* grid b = false || ""
\* grid c = [1] && false
\* grid d = 1 || "x"
\* grid e = telemetry() || false
SrcLogicalMixed ==
    <<"g", "r", "i", "d", " ", "a", " ", "=", " ", "t", "r", "u", "e", " ",
      "&", "&", " ", "0", "\n", "g", "r", "i", "d", " ", "b", " ", "=",
      " ", "f", "a", "l", "s", "e", " ", "|", "|", " ", "\"", "\"", "\n",
      "g", "r", "i", "d", " ", "c", " ", "=", " ", "[", "1", "]", " ", "&",
      "&", " ", "f", "a", "l", "s", "e", "\n", "g", "r", "i", "d", " ",
      "d", " ", "=", " ", "1", " ", "|", "|", " ", "\"", "x", "\"", "\n",
      "g", "r", "i", "d", " ", "e", " ", "=", " ", "t", "e", "l", "e", "m",
      "e", "t", "r", "y", "(", ")", " ", "|", "|", " ", "f", "a", "l", "s",
      "e">>

\* grid a = 0 && 2
SrcLogicalNumbers ==
    <<"g", "r", "i", "d", " ", "a", " ", "=", " ", "0", " ", "&", "&", " ",
      "2">>

\* grid b = "" || "x"
SrcLogicalStrings ==
    <<"g", "r", "i", "d", " ", "b", " ", "=", " ", "\"", "\"", " ", "|",
      "|", " ", "\"", "x", "\"">>

\* grid t = (1 < 2) == true
\* grid f = (2 < 1) == false
\* grid n = telemetry() == [1][5]
\* grid m = (1 == 1) != true
\* grid q = [!0, !"", !true, !false, !telemetry(), ![1], !push, !(1 < 2), !(2 < 1)]
\* circuit (2 < 1) { grid w = 1 }
SrcCanonical ==
    <<"g", "r", "i", "d", " ", "t", " ", "=", " ", "(", "1", " ", "<", " ",
      "2", ")", " ", "=", "=", " ", "t", "r", "u", "e", "\n", "g", "r",
      "i", "d", " ", "f", " ", "=", " ", "(", "2", " ", "<", " ", "1", ")",
      " ", "=", "=", " ", "f", "a", "l", "s", "e", "\n", "g", "r", "i",
      "d", " ", "n", " ", "=", " ", "t", "e", "l", "e", "m", "e", "t", "r",
      "y", "(", ")", " ", "=", "=", " ", "[", "1", "]", "[", "5", "]",
      "\n", "g", "r", "i", "d", " ", "m", " ", "=", " ", "(", "1", " ",
      "=", "=", " ", "1", ")", " ", "!", "=", " ", "t", "r", "u", "e",
      "\n", "g", "r", "i", "d", " ", "q", " ", "=", " ", "[", "!", "0",
      ",", " ", "!", "\"", "\"", ",", " ", "!", "t", "r", "u", "e", ",",
      " ", "!", "f", "a", "l", "s", "e", ",", " ", "!", "t", "e", "l", "e",
      "m", "e", "t", "r", "y", "(", ")", ",", " ", "!", "[", "1", "]", ",",
      " ", "!", "p", "u", "s", "h", ",", " ", "!", "(", "1", " ", "<", " ",
      "2", ")", ",", " ", "!", "(", "2", " ", "<", " ", "1", ")", "]",
      "\n", "c", "i", "r", "c", "u", "i", "t", " ", "(", "2", " ", "<",
      " ", "1", ")", " ", "{", " ", "g", "r", "i", "d", " ", "w", " ", "=",
      " ", "1", " ", "}">>

\* pace f(a, b) { return_pit b }
\* grid r = f(1)
SrcMissingArg ==
    <<"p", "a", "c", "e", " ", "f", "(", "a", ",", " ", "b", ")", " ", "{",
      " ", "r", "e", "t", "u", "r", "n", "_", "p", "i", "t", " ", "b", " ",
      "}", "\n", "g", "r", "i", "d", " ", "r", " ", "=", " ", "f", "(",
      "1", ")">>

\* grid b = 7
\* pace f(a, b) { return_pit b }
\* grid r = f(1)
SrcMissingArgOuter ==
    <<"g", "r", "i", "d", " ", "b", " ", "=", " ", "7", "\n", "p", "a",
      "c", "e", " ", "f", "(", "a", ",", " ", "b", ")", " ", "{", " ", "r",
      "e", "t", "u", "r", "n", "_", "p", "i", "t", " ", "b", " ", "}",
      "\n", "g", "r", "i", "d", " ", "r", " ", "=", " ", "f", "(", "1",
      ")">>

\* pace f(a) { return_pit a }
\* grid r = f(1, telemetry(2))
SrcExtraArg ==
    <<"p", "a", "c", "e", " ", "f", "(", "a", ")", " ", "{", " ", "r", "e",
      "t", "u", "r", "n", "_", "p", "i", "t", " ", "a", " ", "}", "\n",
      "g", "r", "i", "d", " ", "r", " ", "=", " ", "f", "(", "1", ",", " ",
      "t", "e", "l", "e", "m", "e", "t", "r", "y", "(", "2", ")", ")">>

\* grid a = [1]
\* grid b = push(a, 2)
\* grid n = length(a)
\* grid c = push(a, 3)
\* grid d = push(b, a)
\* grid m = length(b)
SrcPush ==
    <<"g", "r", "i", "d", " ", "a", " ", "=", " ", "[", "1", "]", "\n",
      "g", "r", "i", "d", " ", "b", " ", "=", " ", "p", "u", "s", "h", "(",
      "a", ",", " ", "2", ")", "\n", "g", "r", "i", "d", " ", "n", " ",
      "=", " ", "l", "e", "n", "g", "t", "h", "(", "a", ")", "\n", "g",
      "r", "i", "d", " ", "c", " ", "=", " ", "p", "u", "s", "h", "(", "a",
      ",", " ", "3", ")", "\n", "g", "r", "i", "d", " ", "d", " ", "=",
      " ", "p", "u", "s", "h", "(", "b", ",", " ", "a", ")", "\n", "g",
      "r", "i", "d", " ", "m", " ", "=", " ", "l", "e", "n", "g", "t", "h",
      "(", "b", ")">>

\* grid a = [10, 20, 30]
\* grid r = [a[0], a[2], a[1.9], a[0 - 0.5], a[3], a[0 - 1], a[2.5], a[7 / 2], [][0]]
SrcIndex ==
    <<"g", "r", "i", "d", " ", "a", " ", "=", " ", "[", "1", "0", ",", " ",
      "2", "0", ",", " ", "3", "0", "]", "\n", "g", "r", "i", "d", " ",
      "r", " ", "=", " ", "[", "a", "[", "0", "]", ",", " ", "a", "[", "2",
      "]", ",", " ", "a", "[", "1", ".", "9", "]", ",", " ", "a", "[", "0",
      " ", "-", " ", "0", ".", "5", "]", ",", " ", "a", "[", "3", "]", ",",
      " ", "a", "[", "0", " ", "-", " ", "1", "]", ",", " ", "a", "[", "2",
      ".", "5", "]", ",", " ", "a", "[", "7", " ", "/", " ", "2", "]", ",",
      " ", "[", "]", "[", "0", "]", "]">>

\* grid r = "abc"[0]
SrcIndexString ==
    <<"g", "r", "i", "d", " ", "r", " ", "=", " ", "\"", "a", "b", "c",
      "\"", "[", "0", "]">>

\* grid r = [1][true]
SrcIndexBool ==
    <<"g", "r", "i", "d", " ", "r", " ", "=", " ", "[", "1", "]", "[", "t",
      "r", "u", "e", "]">>

\* grid r = 5[0]
SrcIndexNumber ==
    <<"g", "r", "i", "d", " ", "r", " ", "=", " ", "5", "[", "0", "]">>

\* grid r = [1][[0]]
SrcIndexByArray ==
    <<"g", "r", "i", "d", " ", "r", " ", "=", " ", "[", "1", "]", "[", "[",
      "0", "]", "]">>

\* pace f() { }
\* grid r = f()[0]
SrcIndexNil ==
    <<"p", "a", "c", "e", " ", "f", "(", ")", " ", "{", " ", "}", "\n",
      "g", "r", "i", "d", " ", "r", " ", "=", " ", "f", "(", ")", "[", "0",
      "]">>

\* pace f() { }
\* grid r = [1][f()]
SrcIndexByNil ==
    <<"p", "a", "c", "e", " ", "f", "(", ")", " ", "{", " ", "}", "\n",
      "g", "r", "i", "d", " ", "r", " ", "=", " ", "[", "1", "]", "[", "f",
      "(", ")", "]">>

\* pace f() { loop (grid i = 0; i < 3; i = telemetry(9)) { circuit (i == 0) { return_pit 5 }
\* telemetry(8) }
\* telemetry(7)
\* return_pit 6 }
\* loop (grid k = 0; k < 2; k = k + 1) { telemetry(f()) }
\* telemetry(4)
SrcReturnInFor ==
    <<"p", "a", "c", "e", " ", "f", "(", ")", " ", "{", " ", "l", "o", "o",
      "p", " ", "(", "g", "r", "i", "d", " ", "i", " ", "=", " ", "0", ";",
      " ", "i", " ", "<", " ", "3", ";", " ", "i", " ", "=", " ", "t", "e",
      "l", "e", "m", "e", "t", "r", "y", "(", "9", ")", ")", " ", "{", " ",
      "c", "i", "r", "c", "u", "i", "t", " ", "(", "i", " ", "=", "=", " ",
      "0", ")", " ", "{", " ", "r", "e", "t", "u", "r", "n", "_", "p", "i",
      "t", " ", "5", " ", "}", "\n", "t", "e", "l", "e", "m", "e", "t",
      "r", "y", "(", "8", ")", " ", "}", "\n", "t", "e", "l", "e", "m",
      "e", "t", "r", "y", "(", "7", ")", "\n", "r", "e", "t", "u", "r",
      "n", "_", "p", "i", "t", " ", "6", " ", "}", "\n", "l", "o", "o",
      "p", " ", "(", "g", "r", "i", "d", " ", "k", " ", "=", " ", "0", ";",
      " ", "k", " ", "<", " ", "2", ";", " ", "k", " ", "=", " ", "k", " ",
      "+", " ", "1", ")", " ", "{", " ", "t", "e", "l", "e", "m", "e", "t",
      "r", "y", "(", "f", "(", ")", ")", " ", "}", "\n", "t", "e", "l",
      "e", "m", "e", "t", "r", "y", "(", "4", ")">>

\* pace g() { while_racing (true) { circuit (true) { return_pit 5 }
\* telemetry(8) }
\* telemetry(7) }
\* grid k = 0
\* while_racing (k < 6) { k = k + g()
\* telemetry(k) }
\* telemetry(4)
SrcReturnInWhile ==
    <<"p", "a", "c", "e", " ", "g", "(", ")", " ", "{", " ", "w", "h", "i",
      "l", "e", "_", "r", "a", "c", "i", "n", "g", " ", "(", "t", "r", "u",
      "e", ")", " ", "{", " ", "c", "i", "r", "c", "u", "i", "t", " ", "(",
      "t", "r", "u", "e", ")", " ", "{", " ", "r", "e", "t", "u", "r", "n",
      "_", "p", "i", "t", " ", "5", " ", "}", "\n", "t", "e", "l", "e",
      "m", "e", "t", "r", "y", "(", "8", ")", " ", "}", "\n", "t", "e",
      "l", "e", "m", "e", "t", "r", "y", "(", "7", ")", " ", "}", "\n",
      "g", "r", "i", "d", " ", "k", " ", "=", " ", "0", "\n", "w", "h",
      "i", "l", "e", "_", "r", "a", "c", "i", "n", "g", " ", "(", "k", " ",
      "<", " ", "6", ")", " ", "{", " ", "k", " ", "=", " ", "k", " ", "+",
      " ", "g", "(", ")", "\n", "t", "e", "l", "e", "m", "e", "t", "r",
      "y", "(", "k", ")", " ", "}", "\n", "t", "e", "l", "e", "m", "e",
      "t", "r", "y", "(", "4", ")">>

\* pace f(x) { loop (return_pit x; false; 0) { }
\* return_pit 2 }
\* grid r = f(1)
SrcReturnInInit ==
    <<"p", "a", "c", "e", " ", "f", "(", "x", ")", " ", "{", " ", "l", "o",
      "o", "p", " ", "(", "r", "e", "t", "u", "r", "n", "_", "p", "i", "t",
      " ", "x", ";", " ", "f", "a", "l", "s", "e", ";", " ", "0", ")", " ",
      "{", " ", "}", "\n", "r", "e", "t", "u", "r", "n", "_", "p", "i",
      "t", " ", "2", " ", "}", "\n", "g", "r", "i", "d", " ", "r", " ",
      "=", " ", "f", "(", "1", ")">>

\* pace c(i) { telemetry(10 + i)
\* return_pit i < 2 }
\* pace u(i) { telemetry(30 + i)
\* return_pit i + 1 }
\* loop (grid i = 0; c(i); i = u(i)) { circuit (i == 0) { continue_race }
\* telemetry(20 + i) }
\* telemetry(4)
SrcForOrder ==
    <<"p", "a", "c", "e", " ", "c", "(", "i", ")", " ", "{", " ", "t", "e",
      "l", "e", "m", "e", "t", "r", "y", "(", "1", "0", " ", "+", " ", "i",
      ")", "\n", "r", "e", "t", "u", "r", "n", "_", "p", "i", "t", " ",
      "i", " ", "<", " ", "2", " ", "}", "\n", "p", "a", "c", "e", " ",
      "u", "(", "i", ")", " ", "{", " ", "t", "e", "l", "e", "m", "e", "t",
      "r", "y", "(", "3", "0", " ", "+", " ", "i", ")", "\n", "r", "e",
      "t", "u", "r", "n", "_", "p", "i", "t", " ", "i", " ", "+", " ", "1",
      " ", "}", "\n", "l", "o", "o", "p", " ", "(", "g", "r", "i", "d",
      " ", "i", " ", "=", " ", "0", ";", " ", "c", "(", "i", ")", ";", " ",
      "i", " ", "=", " ", "u", "(", "i", ")", ")", " ", "{", " ", "c", "i",
      "r", "c", "u", "i", "t", " ", "(", "i", " ", "=", "=", " ", "0", ")",
      " ", "{", " ", "c", "o", "n", "t", "i", "n", "u", "e", "_", "r", "a",
      "c", "e", " ", "}", "\n", "t", "e", "l", "e", "m", "e", "t", "r",
      "y", "(", "2", "0", " ", "+", " ", "i", ")", " ", "}", "\n", "t",
      "e", "l", "e", "m", "e", "t", "r", "y", "(", "4", ")">>

\* grid i = 0
\* pace c() { telemetry(10)
\* return_pit i < 2 }
\* while_racing (c()) { i = i + 1
\* circuit (i == 1) { continue_race }
\* telemetry(20 + i) }
\* telemetry(4)
SrcWhileOrder ==
    <<"g", "r", "i", "d", " ", "i", " ", "=", " ", "0", "\n", "p", "a",
      "c", "e", " ", "c", "(", ")", " ", "{", " ", "t", "e", "l", "e", "m",
      "e", "t", "r", "y", "(", "1", "0", ")", "\n", "r", "e", "t", "u",
      "r", "n", "_", "p", "i", "t", " ", "i", " ", "<", " ", "2", " ", "}",
      "\n", "w", "h", "i", "l", "e", "_", "r", "a", "c", "i", "n", "g",
      " ", "(", "c", "(", ")", ")", " ", "{", " ", "i", " ", "=", " ", "i",
      " ", "+", " ", "1", "\n", "c", "i", "r", "c", "u", "i", "t", " ",
      "(", "i", " ", "=", "=", " ", "1", ")", " ", "{", " ", "c", "o", "n",
      "t", "i", "n", "u", "e", "_", "r", "a", "c", "e", " ", "}", "\n",
      "t", "e", "l", "e", "m", "e", "t", "r", "y", "(", "2", "0", " ", "+",
      " ", "i", ")", " ", "}", "\n", "t", "e", "l", "e", "m", "e", "t",
      "r", "y", "(", "4", ")">>

\* loop (grid i = zz; telemetry(1); telemetry(2)) { telemetry(3) }
\* telemetry(4)
SrcForInitError ==
    <<"l", "o", "o", "p", " ", "(", "g", "r", "i", "d", " ", "i", " ", "=",
      " ", "z", "z", ";", " ", "t", "e", "l", "e", "m", "e", "t", "r", "y",
      "(", "1", ")", ";", " ", "t", "e", "l", "e", "m", "e", "t", "r", "y",
      "(", "2", ")", ")", " ", "{", " ", "t", "e", "l", "e", "m", "e", "t",
      "r", "y", "(", "3", ")", " ", "}", "\n", "t", "e", "l", "e", "m",
      "e", "t", "r", "y", "(", "4", ")">>

\* loop (grid i = 0; zz; telemetry(2)) { telemetry(3) }
\* telemetry(4)
SrcForCondError ==
    <<"l", "o", "o", "p", " ", "(", "g", "r", "i", "d", " ", "i", " ", "=",
      " ", "0", ";", " ", "z", "z", ";", " ", "t", "e", "l", "e", "m", "e",
      "t", "r", "y", "(", "2", ")", ")", " ", "{", " ", "t", "e", "l", "e",
      "m", "e", "t", "r", "y", "(", "3", ")", " ", "}", "\n", "t", "e",
      "l", "e", "m", "e", "t", "r", "y", "(", "4", ")">>

\* loop (grid i = 0; i < 2; telemetry(2)) { telemetry(3)
\* zz
\* telemetry(5) }
\* telemetry(4)
SrcForBodyError ==
    <<"l", "o", "o", "p", " ", "(", "g", "r", "i", "d", " ", "i", " ", "=",
      " ", "0", ";", " ", "i", " ", "<", " ", "2", ";", " ", "t", "e", "l",
      "e", "m", "e", "t", "r", "y", "(", "2", ")", ")", " ", "{", " ", "t",
      "e", "l", "e", "m", "e", "t", "r", "y", "(", "3", ")", "\n", "z",
      "z", "\n", "t", "e", "l", "e", "m", "e", "t", "r", "y", "(", "5",
      ")", " ", "}", "\n", "t", "e", "l", "e", "m", "e", "t", "r", "y",
      "(", "4", ")">>

\* loop (grid i = 0; i < 2; zz) { telemetry(3) }
\* telemetry(4)
SrcForUpdateError ==
    <<"l", "o", "o", "p", " ", "(", "g", "r", "i", "d", " ", "i", " ", "=",
      " ", "0", ";", " ", "i", " ", "<", " ", "2", ";", " ", "z", "z", ")",
      " ", "{", " ", "t", "e", "l", "e", "m", "e", "t", "r", "y", "(", "3",
      ")", " ", "}", "\n", "t", "e", "l", "e", "m", "e", "t", "r", "y",
      "(", "4", ")">>

\* while_racing (zz) { telemetry(3) }
\* telemetry(4)
SrcWhileCondError ==
    <<"w", "h", "i", "l", "e", "_", "r", "a", "c", "i", "n", "g", " ", "(",
      "z", "z", ")", " ", "{", " ", "t", "e", "l", "e", "m", "e", "t", "r",
      "y", "(", "3", ")", " ", "}", "\n", "t", "e", "l", "e", "m", "e",
      "t", "r", "y", "(", "4", ")">>

\* while_racing (true) { telemetry(3)
\* zz
\* telemetry(5) }
\* telemetry(4)
SrcWhileBodyError ==
    <<"w", "h", "i", "l", "e", "_", "r", "a", "c", "i", "n", "g", " ", "(",
      "t", "r", "u", "e", ")", " ", "{", " ", "t", "e", "l", "e", "m", "e",
      "t", "r", "y", "(", "3", ")", "\n", "z", "z", "\n", "t", "e", "l",
      "e", "m", "e", "t", "r", "y", "(", "5", ")", " ", "}", "\n", "t",
      "e", "l", "e", "m", "e", "t", "r", "y", "(", "4", ")">>

\* circuit (true) { grid x = 1
\* y = 2 }
\* circuit (false) { } else_circuit { grid z = 3 }
\* grid i = 0
\* while_racing (i < 2) { grid w = i
\* i = i + 1 }
\* pace h() { circuit (true) { grid x = 8 }
\* grid k = 0
\* while_racing (k < 1) { k = k + 1
\* grid v = 9 }
\* return_pit [x, k, v] }
\* grid r = [x, y, z, w, i, h()]
SrcScopeLeak ==
    <<"c", "i", "r", "c", "u", "i", "t", " ", "(", "t", "r", "u", "e", ")",
      " ", "{", " ", "g", "r", "i", "d", " ", "x", " ", "=", " ", "1",
      "\n", "y", " ", "=", " ", "2", " ", "}", "\n", "c", "i", "r", "c",
      "u", "i", "t", " ", "(", "f", "a", "l", "s", "e", ")", " ", "{", " ",
      "}", " ", "e", "l", "s", "e", "_", "c", "i", "r", "c", "u", "i", "t",
      " ", "{", " ", "g", "r", "i", "d", " ", "z", " ", "=", " ", "3", " ",
      "}", "\n", "g", "r", "i", "d", " ", "i", " ", "=", " ", "0", "\n",
      "w", "h", "i", "l", "e", "_", "r", "a", "c", "i", "n", "g", " ", "(",
      "i", " ", "<", " ", "2", ")", " ", "{", " ", "g", "r", "i", "d", " ",
      "w", " ", "=", " ", "i", "\n", "i", " ", "=", " ", "i", " ", "+",
      " ", "1", " ", "}", "\n", "p", "a", "c", "e", " ", "h", "(", ")",
      " ", "{", " ", "c", "i", "r", "c", "u", "i", "t", " ", "(", "t", "r",
      "u", "e", ")", " ", "{", " ", "g", "r", "i", "d", " ", "x", " ", "=",
      " ", "8", " ", "}", "\n", "g", "r", "i", "d", " ", "k", " ", "=",
      " ", "0", "\n", "w", "h", "i", "l", "e", "_", "r", "a", "c", "i",
      "n", "g", " ", "(", "k", " ", "<", " ", "1", ")", " ", "{", " ", "k",
      " ", "=", " ", "k", " ", "+", " ", "1", "\n", "g", "r", "i", "d",
      " ", "v", " ", "=", " ", "9", " ", "}", "\n", "r", "e", "t", "u",
      "r", "n", "_", "p", "i", "t", " ", "[", "x", ",", " ", "k", ",", " ",
      "v", "]", " ", "}", "\n", "g", "r", "i", "d", " ", "r", " ", "=",
      " ", "[", "x", ",", " ", "y", ",", " ", "z", ",", " ", "w", ",", " ",
      "i", ",", " ", "h", "(", ")", "]">>

\* grid a = 1
\* loop (grid i = 0; i < 3; i = i + 1) { circuit (i == 0) { grid acc = 10 }
\* circuit (i > 0) { acc = acc + i }
\* a = a + 1
\* grid b = i
\* telemetry(acc) }
\* grid r = a
\* telemetry(b)
SrcScopeFor ==
    <<"g", "r", "i", "d", " ", "a", " ", "=", " ", "1", "\n", "l", "o",
      "o", "p", " ", "(", "g", "r", "i", "d", " ", "i", " ", "=", " ", "0",
      ";", " ", "i", " ", "<", " ", "3", ";", " ", "i", " ", "=", " ", "i",
      " ", "+", " ", "1", ")", " ", "{", " ", "c", "i", "r", "c", "u", "i",
      "t", " ", "(", "i", " ", "=", "=", " ", "0", ")", " ", "{", " ", "g",
      "r", "i", "d", " ", "a", "c", "c", " ", "=", " ", "1", "0", " ", "}",
      "\n", "c", "i", "r", "c", "u", "i", "t", " ", "(", "i", " ", ">",
      " ", "0", ")", " ", "{", " ", "a", "c", "c", " ", "=", " ", "a", "c",
      "c", " ", "+", " ", "i", " ", "}", "\n", "a", " ", "=", " ", "a",
      " ", "+", " ", "1", "\n", "g", "r", "i", "d", " ", "b", " ", "=",
      " ", "i", "\n", "t", "e", "l", "e", "m", "e", "t", "r", "y", "(",
      "a", "c", "c", ")", " ", "}", "\n", "g", "r", "i", "d", " ", "r",
      " ", "=", " ", "a", "\n", "t", "e", "l", "e", "m", "e", "t", "r",
      "y", "(", "b", ")">>

\* pace f() { grid a = 1
\* loop (grid i = 0; i < 2; i = i + 1) { a = 5
\* grid b = i }
\* return_pit a }
\* grid r = f()
\* pace g() { loop (grid i = 0; i < 1; i = i + 1) { grid b = 7 }
\* return_pit b }
\* grid q = g()
SrcScopeForInFn ==
    <<"p", "a", "c", "e", " ", "f", "(", ")", " ", "{", " ", "g", "r", "i",
      "d", " ", "a", " ", "=", " ", "1", "\n", "l", "o", "o", "p", " ",
      "(", "g", "r", "i", "d", " ", "i", " ", "=", " ", "0", ";", " ", "i",
      " ", "<", " ", "2", ";", " ", "i", " ", "=", " ", "i", " ", "+", " ",
      "1", ")", " ", "{", " ", "a", " ", "=", " ", "5", "\n", "g", "r",
      "i", "d", " ", "b", " ", "=", " ", "i", " ", "}", "\n", "r", "e",
      "t", "u", "r", "n", "_", "p", "i", "t", " ", "a", " ", "}", "\n",
      "g", "r", "i", "d", " ", "r", " ", "=", " ", "f", "(", ")", "\n",
      "p", "a", "c", "e", " ", "g", "(", ")", " ", "{", " ", "l", "o", "o",
      "p", " ", "(", "g", "r", "i", "d", " ", "i", " ", "=", " ", "0", ";",
      " ", "i", " ", "<", " ", "1", ";", " ", "i", " ", "=", " ", "i", " ",
      "+", " ", "1", ")", " ", "{", " ", "g", "r", "i", "d", " ", "b", " ",
      "=", " ", "7", " ", "}", "\n", "r", "e", "t", "u", "r", "n", "_",
      "p", "i", "t", " ", "b", " ", "}", "\n", "g", "r", "i", "d", " ",
      "q", " ", "=", " ", "g", "(", ")">>

\* circuit (true) { grid x = 1
SrcUnclosedIf ==
    <<"c", "i", "r", "c", "u", "i", "t", " ", "(", "t", "r", "u", "e", ")",
      " ", "{", " ", "g", "r", "i", "d", " ", "x", " ", "=", " ", "1">>

\* grid i = 0
\* while_racing (i < 1) { i = i + 1
\* telemetry(i)
SrcUnclosedWhile ==
    <<"g", "r", "i", "d", " ", "i", " ", "=", " ", "0", "\n", "w", "h",
      "i", "l", "e", "_", "r", "a", "c", "i", "n", "g", " ", "(", "i", " ",
      "<", " ", "1", ")", " ", "{", " ", "i", " ", "=", " ", "i", " ", "+",
      " ", "1", "\n", "t", "e", "l", "e", "m", "e", "t", "r", "y", "(",
      "i", ")">>

\* pace f() { return_pit 7
\* grid r = f()
SrcUnclosedPace ==
    <<"p", "a", "c", "e", " ", "f", "(", ")", " ", "{", " ", "r", "e", "t",
      "u", "r", "n", "_", "p", "i", "t", " ", "7", "\n", "g", "r", "i",
      "d", " ", "r", " ", "=", " ", "f", "(", ")">>

\* circuit (true) { circuit (true) { grid x = 1 }
\* grid y = 2
SrcUnclosedNested ==
    <<"c", "i", "r", "c", "u", "i", "t", " ", "(", "t", "r", "u", "e", ")",
      " ", "{", " ", "c", "i", "r", "c", "u", "i", "t", " ", "(", "t", "r",
      "u", "e", ")", " ", "{", " ", "g", "r", "i", "d", " ", "x", " ", "=",
      " ", "1", " ", "}", "\n", "g", "r", "i", "d", " ", "y", " ", "=",
      " ", "2">>

\* pace t(k) { telemetry(k)
\* return_pit k }
\* pace add(a, b) { telemetry(9)
\* return_pit a + b }
\* pace pick() { telemetry(0)
\* return_pit add }
\* grid r = pick()(t(1), t(2))
SrcCallOrder ==
    <<"p", "a", "c", "e", " ", "t", "(", "k", ")", " ", "{", " ", "t", "e",
      "l", "e", "m", "e", "t", "r", "y", "(", "k", ")", "\n", "r", "e",
      "t", "u", "r", "n", "_", "p", "i", "t", " ", "k", " ", "}", "\n",
      "p", "a", "c", "e", " ", "a", "d", "d", "(", "a", ",", " ", "b", ")",
      " ", "{", " ", "t", "e", "l", "e", "m", "e", "t", "r", "y", "(", "9",
      ")", "\n", "r", "e", "t", "u", "r", "n", "_", "p", "i", "t", " ",
      "a", " ", "+", " ", "b", " ", "}", "\n", "p", "a", "c", "e", " ",
      "p", "i", "c", "k", "(", ")", " ", "{", " ", "t", "e", "l", "e", "m",
      "e", "t", "r", "y", "(", "0", ")", "\n", "r", "e", "t", "u", "r",
      "n", "_", "p", "i", "t", " ", "a", "d", "d", " ", "}", "\n", "g",
      "r", "i", "d", " ", "r", " ", "=", " ", "p", "i", "c", "k", "(", ")",
      "(", "t", "(", "1", ")", ",", " ", "t", "(", "2", ")", ")">>

\* pace t(k) { telemetry(k)
\* return_pit k }
\* pace add(a, b, c) { telemetry(9)
\* return_pit a }
\* grid r = add(t(1), zz, t(3))
SrcCallArgError ==
    <<"p", "a", "c", "e", " ", "t", "(", "k", ")", " ", "{", " ", "t", "e",
      "l", "e", "m", "e", "t", "r", "y", "(", "k", ")", "\n", "r", "e",
      "t", "u", "r", "n", "_", "p", "i", "t", " ", "k", " ", "}", "\n",
      "p", "a", "c", "e", " ", "a", "d", "d", "(", "a", ",", " ", "b", ",",
      " ", "c", ")", " ", "{", " ", "t", "e", "l", "e", "m", "e", "t", "r",
      "y", "(", "9", ")", "\n", "r", "e", "t", "u", "r", "n", "_", "p",
      "i", "t", " ", "a", " ", "}", "\n", "g", "r", "i", "d", " ", "r",
      " ", "=", " ", "a", "d", "d", "(", "t", "(", "1", ")", ",", " ", "z",
      "z", ",", " ", "t", "(", "3", ")", ")">>

\* pace t(k) { telemetry(k)
\* return_pit k }
\* telemetry(t(1), zz, t(3))
SrcBuiltinArgError ==
    <<"p", "a", "c", "e", " ", "t", "(", "k", ")", " ", "{", " ", "t", "e",
      "l", "e", "m", "e", "t", "r", "y", "(", "k", ")", "\n", "r", "e",
      "t", "u", "r", "n", "_", "p", "i", "t", " ", "k", " ", "}", "\n",
      "t", "e", "l", "e", "m", "e", "t", "r", "y", "(", "t", "(", "1", ")",
      ",", " ", "z", "z", ",", " ", "t", "(", "3", ")", ")">>

\* pace t(k) { telemetry(k)
\* return_pit k }
\* grid q = zz(t(1))
SrcCalleeError ==
    <<"p", "a", "c", "e", " ", "t", "(", "k", ")", " ", "{", " ", "t", "e",
      "l", "e", "m", "e", "t", "r", "y", "(", "k", ")", "\n", "r", "e",
      "t", "u", "r", "n", "_", "p", "i", "t", " ", "k", " ", "}", "\n",
      "g", "r", "i", "d", " ", "q", " ", "=", " ", "z", "z", "(", "t", "(",
      "1", ")", ")">>

\* pace t(k) { telemetry(k)
\* return_pit k }
\* grid r = t(2) - t(1)
\* grid q = zz + t(3)
SrcInfixOrder ==
    <<"p", "a", "c", "e", " ", "t", "(", "k", ")", " ", "{", " ", "t", "e",
      "l", "e", "m", "e", "t", "r", "y", "(", "k", ")", "\n", "r", "e",
      "t", "u", "r", "n", "_", "p", "i", "t", " ", "k", " ", "}", "\n",
      "g", "r", "i", "d", " ", "r", " ", "=", " ", "t", "(", "2", ")", " ",
      "-", " ", "t", "(", "1", ")", "\n", "g", "r", "i", "d", " ", "q",
      " ", "=", " ", "z", "z", " ", "+", " ", "t", "(", "3", ")">>

\* pace t(k) { telemetry(k)
\* return_pit k }
\* grid q = t(1) + zz
SrcInfixRightError ==
    <<"p", "a", "c", "e", " ", "t", "(", "k", ")", " ", "{", " ", "t", "e",
      "l", "e", "m", "e", "t", "r", "y", "(", "k", ")", "\n", "r", "e",
      "t", "u", "r", "n", "_", "p", "i", "t", " ", "k", " ", "}", "\n",
      "g", "r", "i", "d", " ", "q", " ", "=", " ", "t", "(", "1", ")", " ",
      "+", " ", "z", "z">>

\* grid r = [7 % 3, (0 - 7) % 3, 7 % (0 - 3), 7.9 % 2.9, 6 % 3, 7 / 2, 0 / 5, 1 <= 1, 2 >= 3]
SrcNumberOps ==
    <<"g", "r", "i", "d", " ", "r", " ", "=", " ", "[", "7", " ", "%", " ",
      "3", ",", " ", "(", "0", " ", "-", " ", "7", ")", " ", "%", " ", "3",
      ",", " ", "7", " ", "%", " ", "(", "0", " ", "-", " ", "3", ")", ",",
      " ", "7", ".", "9", " ", "%", " ", "2", ".", "9", ",", " ", "6", " ",
      "%", " ", "3", ",", " ", "7", " ", "/", " ", "2", ",", " ", "0", " ",
      "/", " ", "5", ",", " ", "1", " ", "<", "=", " ", "1", ",", " ", "2",
      " ", ">", "=", " ", "3", "]">>

\* grid r = 5 / 0
SrcDivZero ==
    <<"g", "r", "i", "d", " ", "r", " ", "=", " ", "5", " ", "/", " ", "0">>

\* grid r = 5 % 0
SrcModZero ==
    <<"g", "r", "i", "d", " ", "r", " ", "=", " ", "5", " ", "%", " ", "0">>

\* grid r = 5 % 0.5
SrcModHalf ==
    <<"g", "r", "i", "d", " ", "r", " ", "=", " ", "5", " ", "%", " ", "0",
      ".", "5">>

\* pace f() { break_flag }
\* grid i = 0
\* while_racing (i < 3) { i = i + 1
\* f()
\* telemetry(i) }
\* telemetry(9)
SrcCalleeBreak ==
    <<"p", "a", "c", "e", " ", "f", "(", ")", " ", "{", " ", "b", "r", "e",
      "a", "k", "_", "f", "l", "a", "g", " ", "}", "\n", "g", "r", "i",
      "d", " ", "i", " ", "=", " ", "0", "\n", "w", "h", "i", "l", "e",
      "_", "r", "a", "c", "i", "n", "g", " ", "(", "i", " ", "<", " ", "3",
      ")", " ", "{", " ", "i", " ", "=", " ", "i", " ", "+", " ", "1",
      "\n", "f", "(", ")", "\n", "t", "e", "l", "e", "m", "e", "t", "r",
      "y", "(", "i", ")", " ", "}", "\n", "t", "e", "l", "e", "m", "e",
      "t", "r", "y", "(", "9", ")">>

\* pace g() { continue_race }
\* loop (grid i = 0; i < 2; i = i + 1) { g()
\* telemetry(i) }
\* telemetry(9)
SrcCalleeContinue ==
    <<"p", "a", "c", "e", " ", "g", "(", ")", " ", "{", " ", "c", "o", "n",
      "t", "i", "n", "u", "e", "_", "r", "a", "c", "e", " ", "}", "\n",
      "l", "o", "o", "p", " ", "(", "g", "r", "i", "d", " ", "i", " ", "=",
      " ", "0", ";", " ", "i", " ", "<", " ", "2", ";", " ", "i", " ", "=",
      " ", "i", " ", "+", " ", "1", ")", " ", "{", " ", "g", "(", ")",
      "\n", "t", "e", "l", "e", "m", "e", "t", "r", "y", "(", "i", ")",
      " ", "}", "\n", "t", "e", "l", "e", "m", "e", "t", "r", "y", "(",
      "9", ")">>

\* the texts of the first Execute call of an interpreter
Programs ==
    {SrcPlain, SrcOrderError, SrcOrderReturn, SrcLexicalScope,
     SrcLateBinding, SrcShadow, SrcCounter, SrcBreakValue, SrcContinueArg,
     SrcCarrierElement, SrcCarrierOperand, SrcErrorElement, SrcErrorArg,
     SrcErrorAssign, SrcBreakInWhile, SrcNestedBreak, SrcContinueInFor,
     SrcContinueLeak, SrcContinueWhile, SrcEmptyBody, SrcEmptyBodyArg,
     SrcEmptyIf, SrcEmptyLoop, SrcEmptyOperand, SrcParseError,
     SrcLogicalMixed, SrcLogicalNumbers, SrcLogicalStrings, SrcCanonical,
     SrcMissingArg, SrcMissingArgOuter, SrcExtraArg, SrcPush, SrcIndex,
     SrcIndexString, SrcIndexBool, SrcIndexNumber, SrcIndexByArray,
     SrcIndexNil, SrcIndexByNil, SrcReturnInFor, SrcReturnInWhile,
     SrcReturnInInit, SrcForOrder, SrcWhileOrder, SrcForInitError,
     SrcForCondError, SrcForBodyError, SrcForUpdateError, SrcWhileCondError,
     SrcWhileBodyError, SrcScopeLeak, SrcScopeFor, SrcScopeForInFn,
     SrcUnclosedIf, SrcUnclosedWhile, SrcUnclosedPace, SrcUnclosedNested,
     SrcCallOrder, SrcCallArgError, SrcBuiltinArgError, SrcCalleeError,
     SrcInfixOrder, SrcInfixRightError, SrcNumberOps, SrcDivZero, SrcModZero,
     SrcModHalf, SrcCalleeBreak, SrcCalleeContinue}

\* the texts of the later Execute calls on the same interpreter
FollowUps == {SrcProbe, SrcParseError, SrcStray, SrcPlain}

(***************************************************************************)
(* Execute, as main calls it: once on a fresh interpreter for a file, again *)
(* and again on the same interpreter from the prompt loop                  *)
(***************************************************************************)
Init ==
    /\ input = <<>>
    /\ lexer = NewLexer
    /\ token = Token("NONE", <<>>, 0, 0)
    /\ calls = 0
    /\ \E zeroSizeEq \in BOOLEAN : interp = NewInterpreter(zeroSizeEq)
    /\ pc = "idle"
    /\ source = <<>>
    /\ program = <<>>
    /\ diagnostics = <<>>
    /\ cursor = 1
    /\ outcome = NilObj
    /\ execErr = "none"
    /\ nexec = 0
    /\ pre = interp
    /\ trace = <<>>

\* Execute up to the check of parser.Errors()
ExecuteBegin(in) ==
    /\ pc = "idle"
    /\ nexec < MaxExecs
    /\ \E pr \in {ParseProgram(in)} :
          /\ source' = in
          /\ program' = pr.Statements
          /\ diagnostics' = pr.p.errors
          /\ IF ~pr.returns
             THEN pc' = "hung" /\ execErr' = "none"
             ELSE IF ParseFailed(pr.p.errors)
             THEN pc' = "idle" /\ execErr' = "parsing failed"
             ELSE pc' = "eval" /\ execErr' = "none"
    /\ nexec' = nexec + 1
    /\ pre' = interp
    /\ trace' = <<>>
    /\ cursor' = 1
    /\ outcome' = NilObj
    /\ UNCHANGED <<interp, lexVars>>

\* one round of the loop of evalProgram
EvalProgramStep ==
    /\ pc = "eval"
    /\ cursor <= Len(program)
    /\ \E r \in {Eval(program[cursor], RootEnv, [interp EXCEPT !.steps = 0])} :
       \E sw \in {evalProgramSwitch(r.val)} :
          /\ interp' = r.s
          /\ IF Halted(r)
             THEN /\ pc' = IF r.s.halt = "panic" THEN "crashed" ELSE "running"
                  /\ UNCHANGED <<outcome, cursor, trace>>
             ELSE /\ outcome' = sw.value
                  /\ trace' = Append(trace,
                                [idx |-> cursor, Type |-> r.val.Type,
                                 val |-> r.val,
                                 root |-> r.s.envs[RootEnv].store])
                  /\ IF sw.returns
                     THEN pc' = "evaluated" /\ cursor' = cursor
                     ELSE pc' = "eval" /\ cursor' = cursor + 1
    /\ UNCHANGED <<source, program, diagnostics, execErr, nexec, pre, lexVars>>

\* evalProgram has returned: the last lines of Execute
ExecuteReturn ==
    /\ pc = "evaluated" \/ (pc = "eval" /\ cursor > Len(program))
    /\ execErr' = IF outcome # NilObj /\ outcome.Type = "ERROR"
                  THEN "runtime error" ELSE "nil"
    /\ pc' = "idle"
    /\ UNCHANGED <<interp, source, program, diagnostics, cursor, outcome, nexec,
                   pre, trace, lexVars>>

Next ==
    \/ \E in \in (IF nexec = 0 THEN Programs ELSE FollowUps) : ExecuteBegin(in)
    \/ EvalProgramStep
    \/ ExecuteReturn

Spec == Init /\ [][Next]_vars

(***************************************************************************)
(* Properties                                                              *)
(***************************************************************************)
Root == interp.envs[RootEnv].store

\* the last Execute call was the first one, on text, and returned nil
Ran(text) == source = text /\ nexec = 1 /\ pc = "idle" /\ execErr = "nil"

Num(k) == Number(Rat(k, 1))

\* C1: every NextToken call that returns a token other than EOF advances the
\* byte position by at least one (so repeated calls reach EOF)
C1_NextTokenAdvances ==
    [][(calls' = calls + 1 /\ token'.Type # "EOF")
          => lexer'.position > lexer.position]_vars

C3_EvalProgramStopsAtFirst ==
    LET n    == Len(trace)
        last == trace[n]
    IN /\ \A k \in 1..n : trace[k].idx = k
       /\ \A k \in 1..(n - 1) : trace[k].Type \notin {"RETURN_VALUE", "ERROR"}
       /\ (n > 0 /\ last.Type \in {"RETURN_VALUE", "ERROR"})
             => pc \in {"evaluated", "idle"} /\ cursor = n
       /\ (n > 0 /\ pc = "idle")
             => /\ last.Type = "ERROR"
                   => execErr = "runtime error" /\ outcome = last.val
                /\ last.Type = "RETURN_VALUE"
                   => execErr = "nil" /\ outcome = last.val.Value
                /\ last.Type \notin {"RETURN_VALUE", "ERROR"} => n = Len(program)
                /\ Root = last.root
                /\ \A k \in 1..n : DOMAIN trace[k].root \subseteq DOMAIN Root

\* Execute has returned a runtime error at the second of three statements:
\* the first one's binding is there, the third one's is not
C3_Witness ==
    /\ source = SrcOrderError
    /\ pc = "idle"
    /\ execErr = "runtime error"
    /\ Len(program) = 3
    /\ Len(trace) = 2
    /\ <<"a">> \in DOMAIN Root
    /\ <<"c">> \notin DOMAIN Root

\* C4: the environment of every call of a user function encloses the
\* environment in which the function's pace declaration executed, whoever
\* calls it: f called from g reads the x of its declaration (1), not the x of
\* g (2), and a y bound after the declaration of f is read by a later call
C4_LexicalScope ==
    /\ \A c \in interp.frames :
          \E d \in interp.decl :
             d.fn = c.fn /\ interp.envs[c.env].outer = d.env
    /\ Ran(SrcLexicalScope) => Root[<<"r">>] = Num(1)
    /\ Ran(SrcLateBinding) => Root[<<"r">>] = Num(5)

\* g, which binds its own x = 2, has called f, declared at the root where
\* x = 1, and f has returned 1
C4_Witness ==
    /\ Ran(SrcLexicalScope)
    /\ Cardinality(interp.frames) = 2
    /\ \E c \in interp.frames :
          /\ Bound(interp.envs[c.env].store, <<"x">>)
          /\ interp.envs[c.env].store[<<"x">>] = Num(2)
    /\ Root[<<"r">>] = Num(1)

\* C5: a call of a user function changes no environment that existed when
\* the call began: after f, which assigns x = 2, declares grid w and pace h
\* and returns x, the root still has x = 1 and no w or h, and r = 2
C5_CallsWriteOnlyOwnEnvs ==
    /\ \A c \in interp.frames : c.touched = {}
    /\ Ran(SrcShadow)
          => /\ Root[<<"x">>] = Num(1)
             /\ Root[<<"r">>] = Num(2)
             /\ <<"w">> \notin DOMAIN Root
             /\ <<"h">> \notin DOMAIN Root

\* the call of f has finished: its own environment holds x = 2, w and h
C5_Witness ==
    /\ Ran(SrcShadow)
    /\ \E c \in interp.frames :
          /\ DOMAIN interp.envs[c.env].store =
                {<<"p">>, <<"x">>, <<"w">>, <<"h">>}
          /\ interp.envs[c.env].store[<<"x">>] = Num(2)
    /\ Root[<<"x">>] = Num(1)

\* C6 as stated: the second call of the closure returned by make_counter
\* returns one more than the first
C6_CounterIncrements ==
    Ran(SrcCounter) => Root[<<"b">>] = Number(RatAdd(Root[<<"a">>].Value, Rat(1, 1)))

\* C6 as amended: both calls of the closure return 1, and the n captured
\* from make_counter is still 0: n = n + 1 binds a new n in the environment
\* of each call
C6_CounterShadows ==
    Ran(SrcCounter)
       => /\ Root[<<"a">>] = Num(1)
          /\ Root[<<"b">>] = Num(1)
          /\ \A e \in 1..Len(interp.envs) :
                (Bound(interp.envs[e].store, <<"i", "n", "c">>)
                 /\ e # RootEnv)
                   => interp.envs[e].store[<<"n">>] = Num(0)

\* make_counter was called once and the closure twice
C6_Witness ==
    /\ Ran(SrcCounter)
    /\ Cardinality(interp.frames) = 3
    /\ {<<"a">>, <<"b">>, <<"c">>} \subseteq DOMAIN Root

Carriers == {"RETURN_VALUE", "BREAK", "CONTINUE"}

\* C7: no ReturnValue, Break or Continue object is bound to a name, stored
\* as an array element, passed as an argument or used as an operand
C7_CarriersNeverUsed ==
    /\ \A u \in interp.uses :
          u.use \in {"bind", "element", "arg", "operand"}
             => u.Type \notin Carriers
    /\ \A e \in 1..Len(interp.envs) :
          \A name \in DOMAIN interp.envs[e].store :
             interp.envs[e].store[name].Type \notin Carriers

RECURSIVE HoldsError(_)
HoldsError(obj) ==
    CASE obj.Type = "ERROR" -> TRUE
      [] obj.Type = "ARRAY" ->
           \E k \in 1..Len(obj.Elements) : HoldsError(obj.Elements[k])
      [] OTHER -> FALSE

\* C8: no binding of any environment is an Error or an array that holds
\* one, and no Error was ever bound (by grid, assignment, pace or parameter
\* binding) or stored as an array element
C8_NoStoredError ==
    /\ \A e \in 1..Len(interp.envs) :
          \A name \in DOMAIN interp.envs[e].store :
             ~HoldsError(interp.envs[e].store[name])
    /\ \A u \in interp.uses :
          u.use \in {"bind", "element"} => u.Type # "ERROR"

\* grid a = [1, zz]: the array literal and the grid statement have both
\* returned the Error of zz, and a is not bound
C8_Witness ==
    /\ source = SrcErrorElement
    /\ pc = "idle"
    /\ execErr = "runtime error"
    /\ [use |-> "result", Type |-> "ERROR", at |-> "FormationLiteral"]
          \in interp.uses
    /\ [use |-> "result", Type |-> "ERROR", at |-> "GridStatement"]
          \in interp.uses
    /\ <<"a">> \notin DOMAIN Root

\* every break_flag and continue_race of node is inside a loop body of the
\* function (or top level) it is written in
RECURSIVE SignalsInLoops(_, _)
SignalsInLoops(node, inLoop) ==
    LET k == node.kind
    IN CASE k \in {"BreakFlagStatement", "ContinueRaceStatement"} -> inLoop
         [] k = "BlockStatement" ->
              \A j \in 1..Len(node.Statements) :
                 SignalsInLoops(node.Statements[j], inLoop)
         [] k = "CircuitStatement" ->
              /\ SignalsInLoops(node.Consequence, inLoop)
              /\ SignalsInLoops(node.Alternative, inLoop)
         [] k = "LoopStatement" ->
              /\ SignalsInLoops(node.Init, inLoop)
              /\ SignalsInLoops(node.Update, inLoop)
              /\ SignalsInLoops(node.Body, TRUE)
         [] k = "WhileRacingStatement" -> SignalsInLoops(node.Body, TRUE)
         [] k = "PaceStatement" -> SignalsInLoops(node.Body, FALSE)
         [] OTHER -> TRUE

Line(a) == <<NatText(a)>>

\* C9: a break_flag or continue_race inside a loop body is consumed by the
\* innermost enclosing loop: it is never the result of a top-level
\* statement, and the outer loop of SrcContinueLeak runs the rest of its
\* body in both of its rounds
C9_SignalsConsumedByInnermostLoop ==
    /\ \A k \in 1..Len(trace) :
          SignalsInLoops(program[trace[k].idx], FALSE)
             => trace[k].Type \notin {"BREAK", "CONTINUE"}
    /\ Ran(SrcContinueLeak) => interp.out = <<Line(0), Line(1)>>

\* C10: Eval never returns nil, and no nil is bound, stored, passed as an
\* argument or used as an operand
C10_NoNilResult ==
    \A u \in interp.uses : u.Type # "nil"


(***************************************************************************)
(* The token loop of main (debug-lexer), over every bounded source text    *)
(***************************************************************************)
LexAlphabet == {"a", "1", " ", "\n", "&", "|", "=", "/", "\"", "@"}

RECURSIVE Texts(_, _)
Texts(alphabet, n) ==
    IF n = 0 THEN {<<>>}
    ELSE LET shorter == Texts(alphabet, n - 1)
         IN shorter \cup {Append(t, c) : t \in shorter, c \in alphabet}

NoToken == Token("NONE", <<>>, 0, 0)

\* "a
\* b" x
SrcStringNewline ==
    <<"\"", "a", "\n", "b", "\"", " ", "x">>

\* x == y
\*   z <= 1
SrcTwoChar ==
    <<"x", " ", "=", "=", " ", "y", "\n", " ", " ", "z", " ", "<", "=",
      " ", "1">>

\* a // c
\* 	b != "s"
SrcCommentLine ==
    <<"a", " ", "/", "/", " ", "c", "\n", "\t", "b", " ", "!", "=", " ",
      "\"", "s", "\"">>

\* longer texts of the token loop
LexSamples == {SrcStringNewline, SrcTwoChar, SrcCommentLine}

InitLex ==
    /\ input \in Texts(LexAlphabet, MaxLen) \cup LexSamples
    /\ lexer = NewLexer
    /\ token = NoToken
    /\ calls = 0
    /\ interp = NewInterpreter(TRUE)
    /\ pc = "idle"
    /\ source = <<>>
    /\ program = <<>>
    /\ diagnostics = <<>>
    /\ cursor = 1
    /\ outcome = NilObj
    /\ execErr = "none"
    /\ nexec = 0
    /\ pre = interp
    /\ trace = <<>>

\* token := lexer.NextToken(); the loop ends after EOF
LexStep ==
    /\ token.Type # "EOF"
    /\ calls < MaxCalls
    /\ \E r \in {NextToken(input, lexer)} :
          /\ token' = r.tok
          /\ lexer' = r.l
    /\ calls' = calls + 1
    /\ UNCHANGED <<input, execVars>>

NextLex == LexStep

SpecLex == InitLex /\ [][NextLex]_vars

\* the 1-based line of the byte at position pos of text in
LineAt(in, pos) == 1 + Cardinality({k \in 1..pos : in[k] = "\n"})

\* the 1-based column of that byte: its distance from the last newline
\* before it
ColumnAt(in, pos) ==
    LET newlines == {k \in 1..pos : in[k] = "\n"}
        last     == IF newlines = {} THEN 0
                    ELSE CHOOSE k \in newlines : \A j \in newlines : j <= k
    IN pos + 1 - last

\* the number of bytes of the lexeme of a token
LexemeLen(tok) == Len(tok.Value) + (IF tok.Type = "STRING" THEN 2 ELSE 0)

\* C13: the line and column of every token that NextToken returns (other
\* than EOF and ILLEGAL, which have no lexeme behind the position) are the
\* 1-based line and column of the first byte of its lexeme in the source
C13_TokenPositions ==
    [][(calls' = calls + 1 /\ token'.Type \notin {"EOF", "ILLEGAL"})
          => /\ token'.Line =
                   LineAt(input, lexer'.position - LexemeLen(token'))
             /\ token'.Column =
                   ColumnAt(input, lexer'.position - LexemeLen(token'))]_vars

(***************************************************************************)
(* The parser alone: the first lines of Execute (NewLexer, NewParser,       *)
(* ParseProgram) on one source text                                        *)
(***************************************************************************)
\* the lexemes of the binary operators
BinaryOps ==
    {<<"+">>, <<"-">>, <<"*">>, <<"/">>, <<"%">>, <<"=", "=">>, <<"!", "=">>,
     <<"<">>, <<">">>, <<"<", "=">>, <<">", "=">>, <<"&", "&">>, <<"|", "|">>}

PrefixOps == {"-", "!"}

\* x op1 y op2 z
Chain(op1, op2) ==
    <<"x", " ">> \o op1 \o <<" ", "y", " ">> \o op2 \o <<" ", "z">>

\* -x op y, !x op y
PrefixChain(pfx, op) == <<pfx, "x", " ">> \o op \o <<" ", "y">>

\* -a(1), !a(1)
PrefixCall(pfx) == <<pfx, "a", "(", "1", ")">>

\* -a[0], !a[0]
PrefixIndex(pfx) == <<pfx, "a", "[", "0", "]">>

SrcAssignSum == <<"a", " ", "=", " ", "b", " ", "+", " ", "c">>

SrcBangMinus == <<"!", "-", "a">>

SrcIndexCall == <<"a", "[", "0", "]", "(", "1", ")">>

PrecedenceTexts ==
    {Chain(op1, op2) : op1 \in BinaryOps, op2 \in BinaryOps}
       \cup {PrefixChain(pfx, op) : pfx \in PrefixOps, op \in BinaryOps}
       \cup {PrefixCall(pfx) : pfx \in PrefixOps}
       \cup {PrefixIndex(pfx) : pfx \in PrefixOps}
       \cup {SrcAssignSum, SrcBangMinus, SrcIndexCall}

\* a well-formed statement
SrcGoodLine == <<"g", "r", "i", "d", " ", "z", " ", "=", " ", "1">>

\* malformed statements, one line each
BadLines ==
    {<<"g", "r", "i", "d", " ", "=", " ", "2">>,
     <<"g", "r", "i", "d", " ", "x", " ", "2">>,
     <<"g", "r", "i", "d", " ", "x", " ", "=", " ", "(", "1">>,
     <<"t", "e", "l", "e", "m", "e", "t", "r", "y", "(", "1", ",">>,
     <<"x", " ", "+">>,
     <<"c", "i", "r", "c", "u", "i", "t", " ", "x">>,
     <<"p", "a", "c", "e", " ", "f", "(", "a", ",">>,
     <<"x", " ", "=", " ", "&">>,
     <<"g", "r", "i", "d", " ", "y", " ", "=", " ", "@">>,
     <<"|">>}

\* one or two malformed statements, then a well-formed one on a later line
RecoveryTexts ==
    {bad \o <<"\n">> \o SrcGoodLine : bad \in BadLines}
       \cup {b1 \o <<"\n">> \o b2 \o <<"\n">> \o SrcGoodLine
               : b1 \in BadLines, b2 \in BadLines}

InitParse ==
    /\ input \in PrecedenceTexts \cup RecoveryTexts
    /\ lexer = NewLexer
    /\ token = NoToken
    /\ calls = 0
    /\ interp = NewInterpreter(TRUE)
    /\ pc = "idle"
    /\ source = <<>>
    /\ program = <<>>
    /\ diagnostics = <<>>
    /\ cursor = 1
    /\ outcome = NilObj
    /\ execErr = "none"
    /\ nexec = 0
    /\ pre = interp
    /\ trace = <<>>

\* program := parser.ParseProgram(); pc is "hung" when the call never returns
ParseStep ==
    /\ pc = "idle"
    /\ \E pr \in {ParseProgram(input)} :
          /\ program' = pr.Statements
          /\ diagnostics' = pr.p.errors
          /\ pc' = IF pr.returns THEN "parsed" ELSE "hung"
    /\ UNCHANGED <<lexVars, interp, source, cursor, outcome, execErr, nexec,
                   pre, trace>>

NextParse == ParseStep

SpecParse == InitParse /\ [][NextParse]_vars

\* the trees the texts are claimed to parse as
Ident(name) == [kind |-> "Identifier", Value |-> <<name>>]

NumLit(k) == [kind |-> "NumberLiteral", Value |-> Rat(k, 1)]

Infix(left, op, right) ==
    [kind |-> "InfixExpression", Left |-> left, Operator |-> op,
     Right |-> right]

Prefix(op, right) ==
    [kind |-> "PrefixExpression", Operator |-> <<op>>, Right |-> right]

Call(fn, args) ==
    [kind |-> "CallExpression", Function |-> fn, Arguments |-> args]

Index(left, index) ==
    [kind |-> "IndexExpression", Left |-> left, Index |-> index]

Assign(name, value) ==
    [kind |-> "AssignmentExpression", Name |-> name, Value |-> value]

ExprStmt(e) == [kind |-> "ExpressionStatement", Expression |-> e]

\* the level of a binary operator in the table LOGICAL < EQUALS < COMPARE <
\* SUM < PRODUCT
TableLevel(op) ==
    CASE op \in {<<"&", "&">>, <<"|", "|">>} -> 1
      [] op \in {<<"=", "=">>, <<"!", "=">>} -> 2
      [] op \in {<<"<">>, <<">">>, <<"<", "=">>, <<">", "=">>} -> 3
      [] op \in {<<"+">>, <<"-">>} -> 4
      [] op \in {<<"*">>, <<"/">>, <<"%">>} -> 5

\* ParseProgram returned the one expression statement e, without diagnostics
ParsedAs(e) == program = <<ExprStmt(e)>> /\ diagnostics = <<>>

\* C11: x op1 y op2 z parses as ((x op1 y) op2 z) when the level of op2 is at
\* most that of op1 and as (x op1 (y op2 z)) otherwise; a prefix operator
\* takes its operand before any binary operator and after a call or an index;
\* a = b + c is (a = (b + c)), !-a is (!(-a)), a[0](1) is ((a[0])(1))
C11_PrecedenceTable ==
    input \in PrecedenceTexts
       => /\ pc # "hung"
          /\ pc = "parsed"
             => /\ \A op1 \in BinaryOps, op2 \in BinaryOps :
                      input = Chain(op1, op2)
                         => ParsedAs(
                              IF TableLevel(op2) <= TableLevel(op1)
                              THEN Infix(Infix(Ident("x"), op1, Ident("y")),
                                         op2, Ident("z"))
                              ELSE Infix(Ident("x"), op1,
                                         Infix(Ident("y"), op2, Ident("z"))))
                /\ \A pfx \in PrefixOps :
                      /\ \A op \in BinaryOps :
                            input = PrefixChain(pfx, op)
                               => ParsedAs(Infix(Prefix(pfx, Ident("x")), op,
                                                 Ident("y")))
                      /\ input = PrefixCall(pfx)
                            => ParsedAs(Prefix(pfx, Call(Ident("a"),
                                                         <<NumLit(1)>>)))
                      /\ input = PrefixIndex(pfx)
                            => ParsedAs(Prefix(pfx, Index(Ident("a"),
                                                          NumLit(0))))
                /\ input = SrcAssignSum
                      => ParsedAs(Assign(Ident("a"),
                                         Infix(Ident("b"), <<"+">>, Ident("c"))))
                /\ input = SrcBangMinus
                      => ParsedAs(Prefix("!", Prefix("-", Ident("a"))))
                /\ input = SrcIndexCall
                      => ParsedAs(Call(Index(Ident("a"), NumLit(0)),
                                       <<NumLit(1)>>))

\* x + y * z has been parsed: the product is the right operand of the sum
C11_Witness ==
    /\ pc = "parsed"
    /\ input = Chain(<<"+">>, <<"*">>)
    /\ Len(program) = 1
    /\ program[1].Expression.Operator = <<"+">>
    /\ program[1].Expression.Right.kind = "InfixExpression"

\* the well-formed statement of the last line of RecoveryTexts
GoodStatement ==
    [kind |-> "GridStatement", Name |-> Ident("z"), Value |-> NumLit(1)]

\* C12: after a statement that fails to parse, ParseProgram goes on: it
\* returns, with a diagnostic for the malformed statement, and the
\* well-formed statement of the later line is the last statement of the
\* Program
C12_ParserRecovers ==
    input \in RecoveryTexts
       => /\ pc # "hung"
          /\ pc = "parsed"
                => /\ diagnostics # <<>>
                   /\ program # <<>>
                   /\ program[Len(program)] = GoodStatement

(***************************************************************************)
(* Properties of the evaluator: operators, values, calls and loops         *)
(***************************************************************************)
\* the first Execute call, on text, has returned
Done(text) == source = text /\ nexec = 1 /\ pc = "idle"

\* C14: && and || evaluate to the canonical boolean of the truthiness of
\* their operands, whatever the types of the operands (two numbers and two
\* strings included; 0 and the empty string are truthy), never to an Error
C14_LogicalOperators ==
    /\ Done(SrcLogicalMixed)
          => /\ execErr = "nil"
             /\ Root[<<"a">>] = TRUE_OBJ
             /\ Root[<<"b">>] = TRUE_OBJ
             /\ Root[<<"c">>] = FALSE_OBJ
             /\ Root[<<"d">>] = TRUE_OBJ
             /\ Root[<<"e">>] = FALSE_OBJ
    /\ Done(SrcLogicalNumbers)
          => execErr = "nil" /\ Root[<<"a">>] = TRUE_OBJ
    /\ Done(SrcLogicalStrings)
          => execErr = "nil" /\ Root[<<"b">>] = TRUE_OBJ

\* obj, and every object it holds, is canonical where it is a Boolean or a
\* Null
RECURSIVE Canonical(_)
Canonical(obj) ==
    CASE obj.Type = "BOOLEAN" -> obj \in {TRUE_OBJ, FALSE_OBJ}
      [] obj.Type = "NULL" -> obj = NULL
      [] obj.Type = "ARRAY" ->
           \A k \in 1..Len(obj.Elements) : Canonical(obj.Elements[k])
      [] obj.Type = "RETURN_VALUE" -> Canonical(obj.Value)
      [] OTHER -> TRUE

\* C15: every Boolean is one of the objects TRUE and FALSE and every Null
\* is the object NULL, in the environments, in the arrays and among the
\* results, operands and arguments of the evaluation; so == and != by
\* identity, isTruthy and ! see booleans and null by their values:
\* (1 < 2) == true is true, null == null is true, !x is the negation of the
\* truthiness of x, and a false condition does not run its block
C15_CanonicalObjects ==
    /\ interp.seen \subseteq {TRUE_OBJ, FALSE_OBJ, NULL}
    /\ \A e \in 1..Len(interp.envs) :
          \A name \in DOMAIN interp.envs[e].store :
             Canonical(interp.envs[e].store[name])
    /\ \A k \in 1..Len(trace) : Canonical(trace[k].val)
    /\ Done(SrcCanonical)
          => /\ execErr = "nil"
             /\ Root[<<"t">>] = TRUE_OBJ
             /\ Root[<<"f">>] = TRUE_OBJ
             /\ Root[<<"n">>] = TRUE_OBJ
             /\ Root[<<"m">>] = FALSE_OBJ
             /\ Root[<<"q">>].Elements =
                   <<FALSE_OBJ, FALSE_OBJ, FALSE_OBJ, TRUE_OBJ, TRUE_OBJ,
                     FALSE_OBJ, FALSE_OBJ, FALSE_OBJ, TRUE_OBJ>>
             /\ <<"w">> \notin DOMAIN Root

\* comparisons, negations and a call of telemetry have been evaluated: the
\* three canonical objects were among the results
C15_Witness ==
    /\ Done(SrcCanonical)
    /\ execErr = "nil"
    /\ interp.seen = {TRUE_OBJ, FALSE_OBJ, NULL}
    /\ Root[<<"q">>].Type = "ARRAY"

\* C16: a call with fewer arguments than parameters leaves the parameters
\* without an argument unbound, and reading one in the body yields the error
\* "identifier not found: <name>" whatever the environments around the
\* function bind; arguments beyond the parameters bind nothing
C16_MissingParametersUnbound ==
    /\ \A text \in {SrcMissingArg, SrcMissingArgOuter} :
          Done(text)
             => /\ execErr = "runtime error"
                /\ outcome = newError("identifier not found: ", <<<<"b">>>>)
                /\ <<"r">> \notin DOMAIN Root
    /\ Done(SrcExtraArg)
          => /\ execErr = "nil"
             /\ Root[<<"r">>] = Num(1)
             /\ \A c \in interp.frames :
                   DOMAIN interp.envs[c.env].store = {<<"a">>}

\* the Array objects that obj is or holds
RECURSIVE Arrays(_)
Arrays(obj) ==
    IF obj.Type = "ARRAY"
    THEN {obj} \cup UNION {Arrays(obj.Elements[k]) : k \in 1..Len(obj.Elements)}
    ELSE {}

\* the Array objects that the environments hold
ArraysHeld ==
    UNION {UNION {Arrays(interp.envs[e].store[name])
                    : name \in DOMAIN interp.envs[e].store}
             : e \in 1..Len(interp.envs)}

\* after SrcPush: a is still [1] and of length 1, each push has returned a
\* new array that holds the elements of its argument and then the element
PushResults ==
    Done(SrcPush)
       => /\ execErr = "nil"
          /\ Root[<<"a">>].Elements = <<Num(1)>>
          /\ Root[<<"n">>] = Num(1)
          /\ Root[<<"b">>].Elements = <<Num(1), Num(2)>>
          /\ Root[<<"c">>].Elements = <<Num(1), Num(3)>>
          /\ Root[<<"d">>].Elements = <<Num(1), Num(2), Root[<<"a">>]>>
          /\ Root[<<"m">>] = Num(2)
          /\ Cardinality({Root[<<name>>].addr
                             : name \in {"a", "b", "c", "d"}}) = 4

\* C17: push returns a new array and leaves its argument as it was, and no
\* step changes the elements of an array that exists: an Array object held
\* before a step and an Array object held after it that are the same object
\* have the same elements
C17_ArraysImmutable ==
    [][/\ \A x \in ArraysHeld \cup ArraysHeld' :
             \A y \in ArraysHeld' : x.addr = y.addr => x = y
       /\ PushResults']_vars

\* the pushes of SrcPush have been made: four arrays, the argument of the
\* first push among them
C17_Witness ==
    /\ Done(SrcPush)
    /\ execErr = "nil"
    /\ Cardinality(ArraysHeld) = 4
    /\ Len(interp.invoked) = 5

\* the programs that index a target that is not an array, or an array by an
\* index that is not a number
BadIndexTexts ==
    {SrcIndexString, SrcIndexBool, SrcIndexNumber, SrcIndexByArray,
     SrcIndexNil, SrcIndexByNil}

\* the run of text has ended with the error of the index operator
IndexNotSupported(text) ==
    (source = text /\ nexec = 1 /\ pc \in {"idle", "crashed"})
       => /\ pc = "idle"
          /\ execErr = "runtime error"
          /\ outcome.Type = "ERROR"
          /\ outcome.Message.text = "index operator not supported: %T"
          /\ <<"r">> \notin DOMAIN Root

\* C18: indexing an array by a number yields the element at the truncated
\* index when it is within the array and the canonical Null when it is
\* negative or past the last element, without an error; indexing anything
\* that is not an array, or an array by anything that is not a number, ends
\* in the error index operator not supported
C18_Indexing ==
    /\ Done(SrcIndex)
          => /\ execErr = "nil"
             /\ Root[<<"r">>].Elements =
                   <<Num(10), Num(30), Num(20), Num(10), NULL, NULL, Num(30),
                     NULL, NULL>>
    /\ \A text \in BadIndexTexts : IndexNotSupported(text)

\* C19: a return_pit executed in the body of a function, within its
\* if-blocks, while loops and for loops, ends that call: no later statement,
\* no further round and no update of the function runs, the call yields the
\* returned value itself, and the caller goes on, its own loop included
C19_ReturnEndsTheCall ==
    /\ Done(SrcReturnInFor)
          => /\ execErr = "nil"
             /\ interp.out = <<Line(5), Line(5), Line(4)>>
    /\ Done(SrcReturnInWhile)
          => /\ execErr = "nil"
             /\ interp.out = <<Line(5), Line(10), Line(4)>>
             /\ Root[<<"k">>] = Num(10)
    /\ Done(SrcReturnInInit)
          => /\ execErr = "nil"
             /\ Root[<<"r">>] = Num(1)

\* the programs whose loops end in an error: of the init, the condition, the
\* body and the update of a for loop, of the condition and the body of a
\* while loop
LoopErrorTexts ==
    {SrcForInitError, SrcForCondError, SrcForBodyError, SrcForUpdateError,
     SrcWhileCondError, SrcWhileBodyError}

\* what the program has printed when the error ends its loop
PrintedBeforeError(text) ==
    IF text \in {SrcForBodyError, SrcForUpdateError, SrcWhileBodyError}
    THEN <<Line(3)>>
    ELSE <<>>

\* C20: a round of a for loop evaluates the condition, the body and the
\* update in that order, and after a continue_race in the body the update
\* is still evaluated before the next condition; in a while loop
\* continue_race leads to the condition; an error of the init, the
\* condition, the body or the update ends the loop with that error
C20_LoopOrder ==
    /\ (source \in LoopErrorTexts \cup {SrcForOrder, SrcWhileOrder}
           /\ nexec = 1)
          => pc \notin {"running", "crashed", "hung"}
    /\ Done(SrcForOrder)
          => /\ execErr = "nil"
             /\ interp.out = <<Line(10), Line(30), Line(11), Line(21),
                               Line(31), Line(12), Line(4)>>
    /\ Done(SrcWhileOrder)
          => /\ execErr = "nil"
             /\ interp.out = <<Line(10), Line(10), Line(22), Line(10),
                               Line(4)>>
             /\ Root[<<"i">>] = Num(2)
    /\ \A text \in LoopErrorTexts :
          Done(text)
             => /\ execErr = "runtime error"
                /\ outcome = newError("identifier not found: ",
                                      <<<<"z", "z">>>>)
                /\ interp.out = PrintedBeforeError(text)

\* the for loop with a continue_race in its first round has run its three
\* conditions and two updates
C20_Witness ==
    /\ Done(SrcForOrder)
    /\ Len(interp.out) = 7
    /\ Len(interp.invoked) >= 5

\* the step evaluates a for statement of the program
ForStatementStep ==
    /\ pc = "eval"
    /\ cursor <= Len(program)
    /\ program[cursor].kind = "LoopStatement"
    /\ interp' # interp

\* what the scope programs leave behind: the bindings of the if-blocks and
\* the while bodies are in the enclosing environment, at the root and in a
\* call; the for loop keeps its bindings to itself and accumulates over its
\* rounds in one environment
ScopeResults ==
    /\ Done(SrcScopeLeak)
          => /\ execErr = "nil"
             /\ Root[<<"x">>] = Num(1) /\ Root[<<"y">>] = Num(2)
             /\ Root[<<"z">>] = Num(3) /\ Root[<<"w">>] = Num(1)
             /\ Root[<<"i">>] = Num(2)
             /\ Root[<<"r">>].Elements[6].Elements = <<Num(8), Num(1), Num(9)>>
             /\ Len(interp.envs) = 2
             /\ DOMAIN interp.envs[2].store = {<<"x">>, <<"k">>, <<"v">>}
    /\ Done(SrcScopeFor)
          => /\ execErr = "runtime error"
             /\ outcome = newError("identifier not found: ", <<<<"b">>>>)
             /\ interp.out = <<Line(10), Line(11), Line(13)>>
             /\ Root[<<"a">>] = Num(1) /\ Root[<<"r">>] = Num(1)
             /\ DOMAIN Root \cap {<<"i">>, <<"a", "c", "c">>, <<"b">>} = {}
             /\ Len(interp.envs) = 2
             /\ interp.envs[2].outer = RootEnv
             /\ DOMAIN interp.envs[2].store =
                   {<<"i">>, <<"a", "c", "c">>, <<"a">>, <<"b">>}
    /\ Done(SrcScopeForInFn)
          => /\ execErr = "runtime error"
             /\ outcome = newError("identifier not found: ", <<<<"b">>>>)
             /\ Root[<<"r">>] = Num(1)
             /\ \A c \in interp.frames :
                   DOMAIN interp.envs[c.env].store \subseteq {<<"a">>}

CountOf(text, ch) == Cardinality({k \in 1..Len(text) : text[k] = ch})

\* the programs that end inside a block
UnclosedTexts ==
    {SrcUnclosedIf, SrcUnclosedWhile, SrcUnclosedPace, SrcUnclosedNested}

\* C22: a source accepted without a diagnostic has as many closing braces as
\* opening ones, and a source that ends inside a block is refused with a
\* diagnostic, so that Execute evaluates nothing of it
C22_BlocksAreClosed ==
    /\ (nexec >= 1 /\ pc # "hung" /\ diagnostics = <<>>)
          => CountOf(source, "{") = CountOf(source, "}")
    /\ (nexec = 1 /\ source \in UnclosedTexts)
          => /\ ParseFailed(diagnostics)
             /\ pc = "idle"
             /\ execErr = "parsing failed"
             /\ interp = pre

\* the programs in which an operand, an argument or the callee is the
\* unbound name zz
OrderErrorTexts ==
    {SrcCallArgError, SrcBuiltinArgError, SrcCalleeError, SrcInfixOrder,
     SrcInfixRightError}

\* what the program has printed when the error ends it
PrintedBeforeOrderError(text) ==
    CASE text = SrcCalleeError -> <<>>
      [] text = SrcInfixOrder -> <<Line(2), Line(1)>>
      [] OTHER -> <<Line(1)>>

\* C23: a call evaluates its callee, then its arguments from left to right,
\* and at the first argument that is an Error it evaluates no later
\* argument, invokes nothing and yields that Error; an infix expression
\* evaluates its left operand, then its right one, and not the right one
\* when the left is an Error
C23_EvaluationOrder ==
    /\ (source \in OrderErrorTexts \cup {SrcCallOrder} /\ nexec = 1)
          => pc \notin {"running", "crashed", "hung"}
    /\ Done(SrcCallOrder)
          => /\ execErr = "nil"
             /\ interp.out = <<Line(0), Line(1), Line(2), Line(9)>>
             /\ Root[<<"r">>] = Num(3)
    /\ \A text \in OrderErrorTexts :
          Done(text)
             => /\ execErr = "runtime error"
                /\ outcome = newError("identifier not found: ",
                                      <<<<"z", "z">>>>)
                /\ interp.out = PrintedBeforeOrderError(text)
                /\ <<"q">> \notin DOMAIN Root
    /\ Done(SrcInfixOrder) => Root[<<"r">>] = Num(1)

\* a call whose second argument is an Error has ended: its first argument
\* was evaluated and printed, and the run ended with the Error
C23_Witness ==
    /\ Done(SrcCallArgError)
    /\ interp.out = <<Line(1)>>
    /\ execErr = "runtime error"

\* the programs that divide, or take a remainder, by a number that is zero
\* or truncates to zero
ZeroDivisorTexts == {SrcDivZero, SrcModZero, SrcModHalf}

\* C24: an infix operator on two numbers returns a Number, a canonical
\* Boolean or an Error and does not abort the interpreter: / by zero is the
\* error division by zero, % is the remainder of the truncated operands with
\* the sign of the dividend, and % by a number that truncates to zero is an
\* Error
C24_NumberOperators ==
    /\ (source \in ZeroDivisorTexts \cup {SrcNumberOps} /\ nexec = 1)
          => pc \notin {"running", "crashed", "hung"}
    /\ Done(SrcNumberOps)
          => /\ execErr = "nil"
             /\ Root[<<"r">>].Elements =
                   <<Num(1), Num(-1), Num(1), Num(1), Num(0),
                     Number(Rat(7, 2)), Num(0), TRUE_OBJ, FALSE_OBJ>>
    /\ Done(SrcDivZero)
          => /\ execErr = "runtime error"
             /\ outcome = newError("division by zero", <<>>)
    /\ \A text \in ZeroDivisorTexts :
          Done(text)
             => /\ execErr = "runtime error"
                /\ outcome.Type = "ERROR"
                /\ <<"r">> \notin DOMAIN Root

\* C25: a break_flag or continue_race that a function executes outside its
\* own loops does not act on a loop of the caller: a loop whose body calls
\* such a function runs all its rounds, and each round to its end
C25_SignalsStayInTheCallee ==
    /\ Done(SrcCalleeBreak)
          => /\ interp.out = <<Line(1), Line(2), Line(3), Line(9)>>
             /\ Root[<<"i">>] = Num(3)
    /\ Done(SrcCalleeContinue)
          => interp.out = <<Line(0), Line(1), Line(9)>>

====
